---- MODULE Spec2Model ----
(***************************************************************************)
(* Web-CIX-Viewer: the panel-recovery engine (recoverPanelsFromRouting)    *)
(* and the CIX parser (CixParser), src/src/parser/panelRecovery.ts.        *)
(*                                                                         *)
(* Numbers.  A real number of the program (a length in mm) is the integer  *)
(* that counts it in units of 1/Den mm, Den = 4 * SCALE, so that a value   *)
(* finer than the fixed-point grid (1/SCALE mm) exists and toPath's        *)
(* rounding is visible.  An area is counted in (1/Den mm)^2.               *)
(*                                                                         *)
(* Geometry.  clipper-lib is not part of the repository; its boolean       *)
(* operations are modelled by what they compute on rectilinear regions     *)
(* whose edges lie on a square grid of the fixed-point plane (cell edge    *)
(* Cell fixed-point units).  A closed contour (ClipperLib.Path, or the     *)
(* Vec2[] it converts to) is the record                                    *)
(*    [kind |-> "ring", cells |-> the cells it encloses, sign |-> 1 | -1]  *)
(* (sign: its orientation, 1 for an outer contour, -1 for a hole contour)  *)
(* or, for the 40-gon of a drill hole,                                     *)
(*    [kind |-> "circle", c |-> centre, r |-> radius, n |-> vertices].     *)
(***************************************************************************)
EXTENDS Integers, Sequences, FiniteSets, TLC

\* src/src/parser/panelRecovery.ts:14
SCALE == 1000

\* the denominator of the model's real numbers: 1 mm = Den units
Den == 4 * SCALE

\* edge of a grid cell in fixed-point units (1 mm), and the same in real units
Cell == SCALE
CellQ == (Cell * Den) \div SCALE

\* number of grid cells along each axis of the modelled part of the plane
GridN == 5

\* undefined / null, NaN, and a string that is no number, where a number may
\* stand: three values outside the range of the model's numbers
Undef == 0 - 1000000001
NaN == 0 - 1000000002
Junk == 0 - 1000000003

\* Number.isFinite(Number(v)) for the values of the model
IsFinite(v) == v \notin {Undef, NaN, Junk}

Abs(n) == IF n < 0 THEN -n ELSE n
Max(a, b) == IF a >= b THEN a ELSE b
Min(a, b) == IF a <= b THEN a ELSE b

RECURSIVE SeqSum(_)
SeqSum(s) == IF s = <<>> THEN 0 ELSE Head(s) + SeqSum(Tail(s))

RECURSIVE Concat(_)
Concat(ss) == IF ss = <<>> THEN <<>> ELSE Head(ss) \o Concat(Tail(ss))

Range(s) == {s[i] : i \in DOMAIN s}

(***************************************************************************)
(* toPath / fromPath: the fixed-point conversion of one coordinate.        *)
(***************************************************************************)
\* Math.round(x * SCALE): floor(x * SCALE + 1/2)
toCoord(v) == (2 * v * SCALE + Den) \div (2 * Den)
\* X / SCALE
fromCoord(X) == (X * Den) \div SCALE

(***************************************************************************)
(* The grid.                                                               *)
(***************************************************************************)
\* the cell in column i and row j is the number j * GridN + i
Cells == 0 .. GridN * GridN - 1
CellAt(i, j) == j * GridN + i
Col(c) == c % GridN
Row(c) == c \div GridN

\* the cells that share an edge with a cell
Neighbours(c) ==
  (IF Col(c) > 0 THEN {c - 1} ELSE {})
    \cup (IF Col(c) < GridN - 1 THEN {c + 1} ELSE {})
    \cup (IF Row(c) > 0 THEN {c - GridN} ELSE {})
    \cup (IF Row(c) < GridN - 1 THEN {c + GridN} ELSE {})

OnBorder(c) == Col(c) = 0 \/ Row(c) = 0 \/ Col(c) = GridN - 1 \/ Row(c) = GridN - 1

\* the cells of `allowed` connected to `seen` through cells of `allowed`;
\* `frontier` are the cells of `seen` whose neighbours are still to be looked at
RECURSIVE Grow(_, _, _)
Grow(frontier, seen, allowed) ==
  LET more == (UNION {Neighbours(c) : c \in frontier} \cap allowed) \ seen
  IN IF more = {} THEN seen ELSE Grow(more, seen \cup more, allowed)
Flood(seen, allowed) == Grow(seen, seen, allowed)

\* order of cells, used to order the contours of one level of a result
MinCell(S) == CHOOSE c \in S : \A d \in S : c <= d

\* the connected components of a set of cells, ordered by their least cell
RECURSIVE Components(_)
Components(S) ==
  IF S = {} THEN <<>>
  ELSE LET comp == Flood({MinCell(S)}, S)
       IN <<comp>> \o Components(S \ comp)

\* the cells of the complement of C that the outside of the grid reaches
BorderCells == {c \in Cells : OnBorder(c)}
OutsideOf(C) == Flood(BorderCells \ C, Cells \ C)
\* a component with everything it encloses: what its outer contour encloses
Fill(C) == Cells \ OutsideOf(C)

(***************************************************************************)
(* The polygon tree of a region (ClipperLib.PolyTree): the outer contours  *)
(* of the region's components, each with its hole contours, each hole with *)
(* the outer contours nested in it.  TopSolids(R, within) are the          *)
(* components of R \cap within that no other component encloses.           *)
(***************************************************************************)
TopSolids(R, within) ==
  LET comps == Components(R \cap within)
      fills == [i \in DOMAIN comps |-> Fill(comps[i])]
  IN SelectSeq(comps, LAMBDA C :
       \A i \in DOMAIN comps : comps[i] = C \/ ~(C \subseteq fills[i]))

\* number of vertices of the contour around a set of cells: the grid points
\* where its boundary turns
Corners(S) ==
  LET In(i, j) == IF i >= 0 /\ i < GridN /\ j >= 0 /\ j < GridN /\ CellAt(i, j) \in S
                    THEN 1 ELSE 0
      Turns(i, j) ==
        LET sw == In(i - 1, j - 1)
            se == In(i, j - 1)
            nw == In(i - 1, j)
            ne == In(i, j)
            around == sw + se + nw + ne
        IN around \in {1, 3} \/ (around = 2 /\ sw = ne)
  IN Cardinality({p \in (0 .. GridN) \X (0 .. GridN) : Turns(p[1], p[2])})

\* a closed path: the cells it encloses, its orientation and its number of
\* vertices; or the regular n-gon circlePath builds
Ring(cells, sign) ==
  [kind |-> "ring", cells |-> cells, sign |-> sign,
   n |-> IF cells = {} THEN 0 ELSE Corners(cells)]
Circle(c, r, n) == [kind |-> "circle", c |-> c, r |-> r, n |-> n]

\* path.length
PathLength(p) == p.n

EmptyPath == Ring({}, 1)

RECURSIVE NodeOfSolid(_, _), NodeOfHole(_, _)
NodeOfSolid(C, R) ==
  LET filled == Fill(C)
      holes == Components(filled \ C)
  IN [Contour |-> Ring(filled, 1), IsHole |-> FALSE,
      Childs |-> [k \in DOMAIN holes |-> NodeOfHole(holes[k], R)]]
NodeOfHole(H, R) ==
  LET inner == TopSolids(R, H)
  IN [Contour |-> Ring(H, -1), IsHole |-> TRUE,
      Childs |-> [k \in DOMAIN inner |-> NodeOfSolid(inner[k], R)]]

\* the solution tree Clipper.Execute fills for a result region R
PolyTree(R) ==
  LET top == TopSolids(R, Cells)
  IN [Contour |-> EmptyPath, IsHole |-> FALSE,
      Childs |-> [k \in DOMAIN top |-> NodeOfSolid(top[k], R)]]

\* the closed paths Clipper.Execute fills for a result region R (a flat
\* Paths solution): every contour of the tree, outer and hole alike
RECURSIVE NodePaths(_)
NodePaths(node) ==
  (IF PathLength(node.Contour) = 0 THEN <<>> ELSE <<node.Contour>>)
    \o Concat([k \in DOMAIN node.Childs |-> NodePaths(node.Childs[k])])
Contours(R) == NodePaths(PolyTree(R))

\* the region a Paths argument covers under pftNonZero
Region(paths) ==
  {c \in Cells :
     SeqSum([k \in DOMAIN paths |->
              IF c \in paths[k].cells THEN paths[k].sign ELSE 0]) # 0}

(***************************************************************************)
(* Geometry kernel, src/src/parser/panelRecovery.ts:25-172.  A point is    *)
(* [x |-> , y |-> ] in real units.                                         *)
(***************************************************************************)
Pt(x, y) == [x |-> x, y |-> y]

\* area of the regular n-gon circlePath builds, in 1/10000 of radius^2:
\* (n / 2) * sin(2 * pi / n)
NgonFactor(n) == IF n = 40 THEN 31287 ELSE 31153

\* shoelace area of a closed path, in real units
polygonArea(path) ==
  IF path.kind = "circle"
    THEN (((path.r * path.r) \div 100) * NgonFactor(path.n)) \div 100
    ELSE Cardinality(path.cells) * CellQ * CellQ

\* circlePath(center, radius, segments): [] unless the centre is finite and
\* the radius positive
circlePath(center, radius, segments) ==
  IF ~IsFinite(center.x) \/ ~IsFinite(center.y) \/ radius <= 0
    THEN EmptyPath
    ELSE Circle(center, radius, Max(8, segments))

\* bounds(path) of a non-empty ring: least and greatest vertex coordinates
bounds(path) ==
  LET xs == {Col(c) : c \in path.cells}
      ys == {Row(c) : c \in path.cells}
      lo(S) == CHOOSE v \in S : \A w \in S : v <= w
      hi(S) == CHOOSE v \in S : \A w \in S : v >= w
  IN <<fromCoord(lo(xs) * Cell), fromCoord(lo(ys) * Cell),
       fromCoord((hi(xs) + 1) * Cell), fromCoord((hi(ys) + 1) * Cell)>>

\* the columns (rows) whose cell centres lie in [lo, hi]
Span(lo, hi) ==
  Max(0, 0 - ((CellQ \div 2 - lo) \div CellQ))
    .. Min(GridN - 1, (hi - CellQ \div 2) \div CellQ)
Box(xlo, xhi, ylo, yhi) == {CellAt(i, j) : i \in Span(xlo, xhi), j \in Span(ylo, yhi)}

\* the cells a polyline of axis-parallel segments sweeps with half-width
\* `radius`: butt ends, mitered joins; a cell is swept when its centre is.
\* Points are rounded by toPath first.
OffsetCells(pts, radius) ==
  LET P(k) == Pt(fromCoord(toCoord(pts[k].x)), fromCoord(toCoord(pts[k].y)))
      Seg(a, b) ==
        IF a.y = b.y /\ a.x # b.x
          THEN Box(Min(a.x, b.x), Max(a.x, b.x), a.y - radius, a.y + radius)
        ELSE IF a.x = b.x /\ a.y # b.y
          THEN Box(a.x - radius, a.x + radius, Min(a.y, b.y), Max(a.y, b.y))
        ELSE {}
      Join(v) == Box(v.x - radius, v.x + radius, v.y - radius, v.y + radius)
  IN UNION ({Seg(P(k), P(k + 1)) : k \in 1 .. Len(pts) - 1}
              \cup {Join(P(k)) : k \in 2 .. Len(pts) - 1})

\* ClipperOffset(...).Execute: the contours of the swept region
offsetOpenPath(pts, radius) == Contours(OffsetCells(pts, radius))

unionPaths(paths) == IF Len(paths) = 0 THEN <<>> ELSE Contours(Region(paths))

difference(subject, clip) ==
  IF Len(subject) = 0 THEN <<>>
  ELSE Contours(Region(subject) \ Region(clip))

\* visit(node) of differenceWithHoles: the panels it pushes, in push order
RECURSIVE visit(_)
visit(node) ==
  LET below == Concat([k \in DOMAIN node.Childs |-> visit(node.Childs[k])])
      holeChilds == SelectSeq(node.Childs,
                      LAMBDA ch : ch.IsHole /\ PathLength(ch.Contour) > 0)
      holes == [k \in DOMAIN holeChilds |-> holeChilds[k].Contour]
  IN IF PathLength(node.Contour) = 0 THEN below
     ELSE below \o (IF ~node.IsHole
                      THEN <<[outer |-> node.Contour, holes |-> holes]>>
                      ELSE <<>>)

\* a traversal that hands a piece every hole contour found below its node
RECURSIVE HolesBelow(_)
HolesBelow(node) ==
  Concat([k \in DOMAIN node.Childs |->
           (IF node.Childs[k].IsHole /\ PathLength(node.Childs[k].Contour) > 0
              THEN <<node.Childs[k].Contour>> ELSE <<>>)
             \o HolesBelow(node.Childs[k])])
RECURSIVE visitDeep(_)
visitDeep(node) ==
  LET below == Concat([k \in DOMAIN node.Childs |-> visitDeep(node.Childs[k])])
  IN IF PathLength(node.Contour) = 0 THEN below
     ELSE below \o (IF ~node.IsHole
                      THEN <<[outer |-> node.Contour, holes |-> HolesBelow(node)]>>
                      ELSE <<>>)
panelsOfTreeDeep(solutionTree) ==
  Concat([k \in DOMAIN solutionTree.Childs |-> visitDeep(solutionTree.Childs[k])])

\* lines 113-171: the panels that the traversal of the solution tree pushes
panelsOfTree(solutionTree) ==
  Concat([k \in DOMAIN solutionTree.Childs |-> visit(solutionTree.Childs[k])])

differenceWithHoles(subject, clip) ==
  IF Len(subject) = 0 THEN <<>>
  ELSE panelsOfTree(PolyTree(Region(subject) \ Region(clip)))

\* Number(v ?? 0)
Num0(v) == IF v = Undef THEN 0 ELSE v

\* the depth that max_depth alone gives
pathDepthOfPoints(path) == Abs(Num0(path.max_depth))

\* pathDepth: the greatest of |max_depth| and the numeric PR, DP, ZE, Z
pathDepth(path) ==
  LET tryParse(v) == IF IsFinite(v) THEN Abs(v) ELSE 0
  IN Max(Max(Max(Max(Abs(Num0(path.max_depth)), tryParse(path.params.PR)),
                 tryParse(path.params.DP)),
             tryParse(path.params.ZE)),
         tryParse(path.params.Z))

\* depthRatio is counted in 1/100
isThroughCut(path, sheetThickness, depthRatio) ==
  LET depth == pathDepth(path)
  IN IF sheetThickness <= 0 THEN depth > 0
     ELSE depth * 100 >= sheetThickness * depthRatio

pointInPolygon(pt, polygon) ==
  IF polygon.kind = "circle"
    THEN LET dx == pt.x - polygon.c.x
             dy == pt.y - polygon.c.y
         \* inside the inscribed circle of the n-gon (cos^2(pi/40) > 0.99)
         IN dx * dx + dy * dy <= (polygon.r * polygon.r * 99) \div 100
    ELSE \E c \in polygon.cells :
           /\ Col(c) * CellQ <= pt.x /\ pt.x <= (Col(c) + 1) * CellQ
           /\ Row(c) * CellQ <= pt.y /\ pt.y <= (Row(c) + 1) * CellQ

\* a containment test that forgets the holes
pointInOuterRing(pt, polygon, holes) == pointInPolygon(pt, polygon)

pointInPolygonWithHoles(pt, polygon, holes) ==
  /\ pointInPolygon(pt, polygon)
  /\ \A k \in DOMAIN holes :
       ~(PathLength(holes[k]) > 0 /\ pointInPolygon(pt, holes[k]))

\* a panel that claims every drill hole of positive diameter, wherever it is
AttachEverything(panel, drillHoles) ==
  LET assigned == SelectSeq(drillHoles, LAMBDA hole :
                    /\ IsFinite(hole.x) /\ IsFinite(hole.y)
                    /\ Num0(hole.diameter) \div 2 > 0)
      circles == [k \in DOMAIN assigned |->
                   circlePath(Pt(assigned[k].x, assigned[k].y),
                              Num0(assigned[k].diameter) \div 2, 40)]
  IN [panel EXCEPT !.holes = panel.holes \o circles,
                   !.drillHoles = IF Len(assigned) > 0 THEN assigned ELSE @]

\* a panel whose area the drill circles may take below zero
AttachUnclamped(panel, drillHoles) ==
  LET claimed == AttachEverything(panel,
                   SelectSeq(drillHoles, LAMBDA hole :
                     pointInPolygon(Pt(hole.x, hole.y), panel.polygon)))
  IN [claimed EXCEPT !.area =
        panel.area
          - SeqSum([k \in DOMAIN claimed.drillHoles |->
              polygonArea(circlePath(Pt(claimed.drillHoles[k].x,
                                        claimed.drillHoles[k].y),
                                     Num0(claimed.drillHoles[k].diameter) \div 2,
                                     40))])]

\* the body of attachDrillHolesToPanels's loop for one panel
AttachToPanel(panel, drillHoles) ==
  LET Claims(hole) ==
        LET radius == Num0(hole.diameter) \div 2
        IN /\ IsFinite(hole.x) /\ IsFinite(hole.y) /\ radius > 0
           /\ pointInPolygon(Pt(hole.x, hole.y), panel.polygon)
           /\ PathLength(circlePath(Pt(hole.x, hole.y), radius, 40)) >= 3
      assigned == SelectSeq(drillHoles, Claims)
      circles == [k \in DOMAIN assigned |->
                   circlePath(Pt(assigned[k].x, assigned[k].y),
                              Num0(assigned[k].diameter) \div 2, 40)]
      area == panel.area
                - SeqSum([k \in DOMAIN circles |-> polygonArea(circles[k])])
  IN [panel EXCEPT !.holes = panel.holes \o circles,
                   !.drillHoles = IF Len(assigned) > 0 THEN assigned ELSE @,
                   !.area = Max(area, 0)]

attachDrillHolesToPanels(panels, drillHoles) ==
  IF Len(drillHoles) = 0 THEN panels
  ELSE [k \in DOMAIN panels |-> AttachToPanel(panels[k], drillHoles)]

(***************************************************************************)
(* recoverPanelsFromRouting, src/src/parser/panelRecovery.ts:249-456, by   *)
(* stage.  doc is the CixData, opts the RecoverOptions (depthRatio and     *)
(* kerfScale counted in 1/100).                                            *)
(***************************************************************************)
\* a width read without its sign
sheetWidthMagnitude(doc) == Abs(Num0(doc.metadata.sheet_width))

sheetW(doc) == Num0(doc.metadata.sheet_width)
sheetH(doc) == Num0(doc.metadata.sheet_height)
sheetT(doc) == Num0(doc.metadata.sheet_thickness)

\* the cells of the rectangle [0,0]-[X,Y] of the fixed-point plane
RectCells(X, Y) ==
  {c \in Cells : (Col(c) + 1) * Cell <= X /\ (Row(c) + 1) * Cell <= Y}

sheetPath(doc) ==
  <<Ring(RectCells(toCoord(sheetW(doc)), toCoord(sheetH(doc))), 1)>>

\* radius of the kerf of one path
kerfRadius(path, opts) ==
  LET dia == IF path.diameter = Undef THEN opts.defaultBitDiameterMm
             ELSE path.diameter
  IN (dia * opts.kerfScale) \div 200

\* a path addKerfsForPaths hands to offsetOpenPath
Buffered(path, opts) == Len(path.points) >= 2 /\ kerfRadius(path, opts) > 0

addKerfsForPaths(paths, opts) ==
  Concat([k \in DOMAIN paths |->
           IF Buffered(paths[k], opts)
             THEN offsetOpenPath(paths[k].points, kerfRadius(paths[k], opts))
             ELSE <<>>])

throughCuts(doc, opts) ==
  SelectSeq(doc.metadata.routing_paths,
            LAMBDA path : isThroughCut(path, sheetT(doc), opts.depthRatio))

\* the kerfs of the through cuts alone, without the fallback of lines 292-295
kerfStageStrict(doc, opts) ==
  [kerfs |-> addKerfsForPaths(throughCuts(doc, opts), opts),
   fallback |-> FALSE,
   called |-> \E k \in DOMAIN throughCuts(doc, opts) :
                Buffered(throughCuts(doc, opts)[k], opts)]

\* lines 287-295: the kerfs, whether the fallback of lines 292-295 was taken,
\* and whether offsetOpenPath was called at all
kerfStage(doc, opts) ==
  LET routing == doc.metadata.routing_paths
      through == throughCuts(doc, opts)
      first == addKerfsForPaths(through, opts)
      fallback == Len(first) = 0 /\ Len(routing) > 0
  IN [kerfs |-> IF fallback THEN addKerfsForPaths(routing, opts) ELSE first,
      fallback |-> fallback,
      called |-> \/ \E k \in DOMAIN through : Buffered(through[k], opts)
                 \/ fallback /\ \E k \in DOMAIN routing : Buffered(routing[k], opts)]

collectKerfs(doc, opts) == kerfStage(doc, opts).kerfs
fallbackTaken(doc, opts) == kerfStage(doc, opts).fallback
offsetCalled(doc, opts) == kerfStage(doc, opts).called

sheetPanel(doc) ==
  [polygon |-> sheetPath(doc)[1], holes |-> <<>>,
   area |-> sheetW(doc) * sheetH(doc),
   width |-> sheetW(doc), height |-> sheetH(doc),
   bounds |-> <<0, 0, sheetW(doc), sheetH(doc)>>,
   drillHoles |-> <<>>]

\* the whole sheet without its drill holes
wholeSheetUndrilled(doc) == <<sheetPanel(doc)>>

\* lines 297-316 and 406-421: the whole sheet as the only panel
wholeSheet(doc) == attachDrillHolesToPanels(<<sheetPanel(doc)>>, doc.metadata.drilling)

\* lines 330: the kerf union in real units, paths of at least 3 vertices
kerfPolygonsOf(kerfUnion) == SelectSeq(kerfUnion, LAMBDA poly : PathLength(poly) >= 3)

flatPieces(doc, kerfUnion) ==
  LET fallback == difference(sheetPath(doc), kerfUnion)
  IN [k \in DOMAIN fallback |-> [outer |-> fallback[k], holes |-> <<>>]]

\* lines 336-353 when differenceWithHoles returns
subtractKerfs(doc, kerfUnion) ==
  LET remaining == differenceWithHoles(sheetPath(doc), kerfUnion)
  IN IF Len(remaining) = 0 THEN flatPieces(doc, kerfUnion) ELSE remaining

\* lines 356-390: one piece as a panel, before the minimum-area filter
pieceAsPanel(piece) ==
  LET b == bounds(piece.outer)
  IN [polygon |-> piece.outer, holes |-> piece.holes,
      area |-> polygonArea(piece.outer)
                 - SeqSum([k \in DOMAIN piece.holes |-> polygonArea(piece.holes[k])]),
      width |-> b[3] - b[1], height |-> b[4] - b[2], bounds |-> b,
      drillHoles |-> <<>>]

\* a filter that looks at the vertices only
survivesAnyArea(piece, opts) == PathLength(piece.outer) >= 3

\* a piece that lines 359 and 379 keep
survives(piece, opts) ==
  /\ PathLength(piece.outer) >= 3
  /\ pieceAsPanel(piece).area >= opts.minPanelArea

\* lines 355-392
buildPanels(doc, opts, remaining) ==
  LET kept == SelectSeq(remaining, LAMBDA piece : survives(piece, opts))
  IN attachDrillHolesToPanels([k \in DOMAIN kept |-> pieceAsPanel(kept[k])],
                              doc.metadata.drilling)

\* lines 394-404
labelPoints(doc) ==
  LET finite == SelectSeq(doc.panels, LAMBDA panel :
                  IsFinite(panel.metadata.x_position)
                    /\ IsFinite(panel.metadata.y_position))
  IN [k \in DOMAIN finite |->
       [id |-> finite[k].id, x |-> finite[k].metadata.x_position,
        y |-> finite[k].metadata.y_position]]

\* lines 423-428
labeledPanels(doc, panels) ==
  LET pts == labelPoints(doc)
  IN IF Len(pts) > 0
       THEN SelectSeq(panels, LAMBDA panel :
              \E k \in DOMAIN pts :
                pointInPolygonWithHoles(Pt(pts[k].x, pts[k].y),
                                        panel.polygon, panel.holes))
       ELSE <<>>

finalPanels(doc, panels) ==
  LET labeled == labeledPanels(doc, panels)
  IN IF Len(labeled) > 0 THEN labeled ELSE panels

noHoles(polys) == [k \in DOMAIN polys |-> [outer |-> polys[k], holes |-> <<>>]]

\* lines 418-419 and 446-450
kerfsAsRemoved(kerfPolygons) ==
  noHoles(SelectSeq(kerfPolygons, LAMBDA poly : PathLength(poly) >= 3))

\* lines 431-444 when differenceWithHoles returns
removedShapes(doc, final) ==
  LET withRing == SelectSeq(final, LAMBDA panel : PathLength(panel.polygon) >= 3)
      panelPaths == [k \in DOMAIN withRing |-> withRing[k].polygon]
      removedPieces == differenceWithHoles(sheetPath(doc), panelPaths)
      kept == SelectSeq(removedPieces, LAMBDA piece : PathLength(piece.outer) >= 3)
  IN IF Len(panelPaths) > 0
       THEN [k \in DOMAIN kept |->
              [outer |-> kept[k].outer,
               holes |-> SelectSeq(kept[k].holes, LAMBDA hole : PathLength(hole) >= 3)]]
       ELSE <<[outer |-> sheetPath(doc)[1], holes |-> <<>>]>>

\* lines 258-456 when no geometry-kernel call raises: what the call returns
\* and what it leaves in metadata.kerf_polygons and metadata.removed_polygons
Recover(doc, opts) ==
  IF sheetW(doc) <= 0 \/ sheetH(doc) <= 0
    THEN [panels |-> <<>>, kerf_polygons |-> <<>>, removed_polygons |-> <<>>]
  ELSE LET kerfs == collectKerfs(doc, opts)
           kerfUnion == unionPaths(kerfs)
           kerfPolygons == IF Len(kerfUnion) = 0 THEN <<>>
                           ELSE kerfPolygonsOf(kerfUnion)
           panels == buildPanels(doc, opts, subtractKerfs(doc, kerfUnion))
           final == finalPanels(doc, panels)
       IN IF Len(kerfs) = 0
            THEN [panels |-> wholeSheet(doc), kerf_polygons |-> <<>>,
                  removed_polygons |-> <<>>]
          ELSE IF Len(panels) = 0
            THEN [panels |-> wholeSheet(doc), kerf_polygons |-> kerfPolygons,
                  removed_polygons |-> kerfsAsRemoved(kerfPolygons)]
          ELSE [panels |-> final, kerf_polygons |-> kerfPolygons,
                removed_polygons |-> removedShapes(doc, final)]

(***************************************************************************)
(* CixParser, src/src/parser/panelRecovery.ts:460-858.  A line of the text *)
(* is kept by what the parser tells apart in it: its tag (the marker it    *)
(* starts with, NAME for NAME=..., PARAM for PARAM,NAME=...,VALUE=...,     *)
(* ASSIGN for key=value, TEXT for anything else), the name or key it       *)
(* carries and its value.  A value is the text of a number, of an          *)
(* expression "a.-b", of a word, or is missing.                            *)
(***************************************************************************)
Num(n) == [kind |-> "num", n |-> n, m |-> 0, text |-> ""]
Expr(a, b) == [kind |-> "expr", n |-> a, m |-> b, text |-> ""]
Word(text) == [kind |-> "word", n |-> 0, m |-> 0, text |-> text]
Missing == [kind |-> "missing", n |-> 0, m |-> 0, text |-> ""]

\* a value written between double quotes, and the value without them
Quoted(value) ==
  [value EXCEPT !.kind = IF @ = "num" THEN "quoted num" ELSE "quoted word"]
Unquote(value) ==
  IF value.kind = "quoted num" THEN [value EXCEPT !.kind = "num"]
  ELSE IF value.kind = "quoted word" THEN [value EXCEPT !.kind = "word"]
  ELSE value

Line(tag, name, value) == [tag |-> tag, name |-> name, value |-> value]
BeginMaindata == Line("BEGIN MAINDATA", "", Missing)
EndMaindata == Line("END MAINDATA", "", Missing)
BeginMacro == Line("BEGIN MACRO", "", Missing)
EndMacro == Line("END MACRO", "", Missing)
NameLine(type) == Line("NAME", "", Word(type))
Param(name, value) == Line("PARAM", name, value)
Assign(key, value) == Line("ASSIGN", key, value)
Text == Line("TEXT", "", Missing)

\* Number.parseFloat of a value's text: the leading number, else NaN
NumberParseFloat(value) ==
  IF value.kind \in {"num", "expr"} THEN value.n ELSE NaN

\* Number.parseInt(String(value), 10)
NumberParseInt(value) ==
  IF value.kind \in {"num", "expr"} THEN value.n ELSE NaN

\* lines 643-658: undefined is 0, an expression is evaluated, anything that
\* is not a number is 0
parseFloat(value) ==
  IF value.kind = "missing" THEN 0
  ELSE IF value.kind = "expr" THEN value.n - value.m
  ELSE IF NumberParseFloat(value) = NaN THEN 0
  ELSE NumberParseFloat(value)

\* a flip that does not look at the sign of the height
flipYAlways(value, sheetHeight) == sheetHeight - value

\* lines 847-852
flipY(value, sheetHeight) ==
  IF sheetHeight = 0 \/ sheetHeight = NaN THEN value
  ELSE IF sheetHeight <= 0 THEN value
  ELSE sheetHeight - value

NoDims == [LPX |-> Undef, LPY |-> Undef, LPZ |-> Undef]

\* a reading of MAINDATA that takes LPX, LPY, LPZ wherever they stand
maindataStepAnywhere(st, line) ==
  LET parsed == NumberParseFloat(line.value)
  IN IF st.stopped THEN st
     ELSE IF line.tag = "BEGIN MAINDATA" THEN [st EXCEPT !.inMain = TRUE]
     ELSE IF line.tag = "END MAINDATA" THEN [st EXCEPT !.inMain = FALSE]
     ELSE IF /\ line.tag = "ASSIGN"
             /\ line.name \in {"LPX", "LPY", "LPZ"}
             /\ parsed # NaN
       THEN [st EXCEPT !.maindata[line.name] = parsed]
     ELSE st

\* lines 525-548, the body of the loop for one line: st.maindata holds the
\* LPX, LPY, LPZ read so far, st.inMain tells whether BEGIN MAINDATA was seen
\* and st.stopped whether END MAINDATA has ended the loop
maindataStep(st, line) ==
  LET parsed == NumberParseFloat(line.value)
  IN IF st.stopped THEN st
     ELSE IF line.tag = "BEGIN MAINDATA" THEN [st EXCEPT !.inMain = TRUE]
     ELSE IF line.tag = "END MAINDATA"
       THEN [st EXCEPT !.inMain = FALSE, !.stopped = TRUE]
     ELSE IF ~st.inMain THEN st
     ELSE IF /\ line.tag = "ASSIGN"
             /\ line.name \in {"LPX", "LPY", "LPZ"}
             /\ parsed # NaN
       THEN [st EXCEPT !.maindata[line.name] = parsed]
     ELSE st

\* the loop of lines 525-548 over lines[lo .. hi], first half then second
RECURSIVE maindataFrom(_, _, _, _)
maindataFrom(lines, lo, hi, st) ==
  IF lo > hi THEN st
  ELSE IF lo = hi THEN maindataStep(st, lines[lo])
  ELSE LET first == maindataFrom(lines, lo, (lo + hi) \div 2, st)
       IN IF first.stopped THEN first
          ELSE maindataFrom(lines, (lo + hi) \div 2 + 1, hi, first)

\* lines 521-550
parseMaindata(lines) ==
  maindataFrom(lines, 1, Len(lines),
               [maindata |-> NoDims, inMain |-> FALSE, stopped |-> FALSE]).maindata

\* v ?? d
Or(v, d) == IF v = Undef THEN d ELSE v

\* a reading of a PARAM line that keeps the quotes of its value
parseParamLineRaw(line) == [NAME |-> line.name, VALUE |-> line.value]

\* lines 590-599: the NAME and the VALUE of a PARAM line, the quotes around
\* the value taken off
parseParamLine(line) == [NAME |-> line.name, VALUE |-> Unquote(line.value)]

\* a macro record: its entries by name, _MACRO_TYPE among them
NoMacro == [open |-> FALSE, entries |-> <<>>]
Get(macro, name) ==
  IF \E k \in DOMAIN macro : macro[k][1] = name
    THEN macro[CHOOSE k \in DOMAIN macro : macro[k][1] = name][2]
    ELSE Missing
Put(macro, name, value) ==
  IF \E k \in DOMAIN macro : macro[k][1] = name
    THEN [k \in DOMAIN macro |->
            IF macro[k][1] = name THEN <<name, value>> ELSE macro[k]]
    ELSE Append(macro, <<name, value>>)

\* lines 557-584, the body of the loop for one line: st.current is the
\* macro being read and st.macros the macros pushed so far
macroStep(st, line) ==
  LET params == parseParamLine(line)
  IN IF line.tag = "BEGIN MACRO"
       THEN [st EXCEPT !.current = [open |-> TRUE, entries |-> <<>>]]
     ELSE IF line.tag = "END MACRO"
       THEN [current |-> NoMacro,
             macros |-> IF st.current.open THEN Append(st.macros, st.current.entries)
                        ELSE st.macros]
     ELSE IF ~st.current.open THEN st
     ELSE IF line.tag = "NAME"
       THEN [st EXCEPT !.current.entries = Put(@, "_MACRO_TYPE", Unquote(line.value))]
     ELSE IF line.tag = "PARAM" /\ params.NAME # "" /\ params.VALUE # Missing
       THEN [st EXCEPT !.current.entries = Put(@, params.NAME, params.VALUE)]
     ELSE st

\* the loop of lines 557-584 over lines[lo .. hi], first half then second
\* (the test on the first half's result is there to have it read first)
RECURSIVE macrosFrom(_, _, _, _)
macrosFrom(lines, lo, hi, st) ==
  IF lo > hi THEN st
  ELSE IF lo = hi THEN macroStep(st, lines[lo])
  ELSE LET first == macrosFrom(lines, lo, (lo + hi) \div 2, st)
       IN IF Len(first.macros) >= 0
            THEN macrosFrom(lines, (lo + hi) \div 2 + 1, hi, first)
            ELSE first

\* lines 552-588
parseMacros(lines) ==
  macrosFrom(lines, 1, Len(lines), [current |-> NoMacro, macros |-> <<>>]).macros

macroType(macro) == Get(macro, "_MACRO_TYPE")

\* lines 601-641
createPanelFromLabel(labelMacro, sheetDims, currentSheetHeight) ==
  LET yValue == IF Get(labelMacro, "Y") = Missing THEN Num(0)
                ELSE Get(labelMacro, "Y")
      yRaw == parseFloat(yValue)
      yHasExpression == yValue.kind = "expr"
  IN [id |-> IF Get(labelMacro, "ID") = Missing THEN Word("Unknown")
             ELSE Get(labelMacro, "ID"),
      thickness |-> Or(sheetDims.LPZ, 18),
      metadata |->
        [x_position |-> parseFloat(Get(labelMacro, "X")),
         y_position |-> IF yHasExpression THEN yRaw
                        ELSE flipY(yRaw, currentSheetHeight),
         y_position_raw |-> yRaw,
         rotation |-> parseFloat(Get(labelMacro, "ROT"))]]

\* lines 499-508: the panels of the LABEL macros, in macro order
labelPanels(macros, sheetDims, currentSheetHeight) ==
  LET labels == SelectSeq(macros, LAMBDA macro : macroType(macro) = Word("LABEL"))
  IN [k \in DOMAIN labels |->
       createPanelFromLabel(labels[k], sheetDims, currentSheetHeight)]

\* line.includes("PARAM,NAME=" + prefix): the line's name starts with prefix
NameStartsWith(line, prefix) ==
  /\ line.tag = "PARAM"
  /\ \/ line.name = prefix
     \/ prefix = "X" /\ line.name \in {"XE", "XC"}
     \/ prefix = "Y" /\ line.name \in {"YE", "YC"}

\* a scan that never leaves the text: it stops on the last line at the latest
RECURSIVE blockEndAtLast(_, _)
blockEndAtLast(lines, i) ==
  IF i > Len(lines) THEN Len(lines)
  ELSE IF lines[i].tag = "END MACRO" THEN i
  ELSE blockEndAtLast(lines, i + 1)

\* the index of the first END MACRO at or after i, or one past the end
RECURSIVE blockEnd(_, _)
blockEnd(lines, i) ==
  IF i > Len(lines) \/ lines[i].tag = "END MACRO" THEN i
  ELSE blockEnd(lines, i + 1)

\* the value a sub-block's scan of lines[from .. to - 1] leaves in the
\* variable of `prefix`, the if-else chain testing the prefixes of `chain`
\* in order: the last line that reaches the test of `prefix` and passes it
scanned(lines, from, to, chain, prefix) ==
  LET first(line) ==
        IF \E c \in DOMAIN chain : NameStartsWith(line, chain[c])
          THEN chain[CHOOSE c \in DOMAIN chain :
                       /\ NameStartsWith(line, chain[c])
                       /\ \A d \in 1 .. c - 1 : ~NameStartsWith(line, chain[d])]
          ELSE ""
      mine == {j \in from .. to - 1 : first(lines[j]) = prefix}
  IN IF mine = {} THEN 0
     ELSE parseFloat(lines[CHOOSE j \in mine : \A l \in mine : l <= j].value)

NoPath == [points |-> <<>>, params |-> <<>>, max_depth |-> 0, diameter |-> Undef,
           id |-> Undef]
\* center: <<x, y>>, or <<>> for a point without the property
RoutingPoint(x, y, z, type, center) ==
  [x |-> x, y |-> y, z |-> z, type |-> type, center |-> center]

\* lines 675-688: the PARAM lines of a ROUT macro, from its NAME line on
RECURSIVE routParams(_, _, _, _)
routParams(lines, i, to, path) ==
  IF i >= to THEN path
  ELSE LET params == parseParamLine(lines[i])
           dia == NumberParseFloat(params.VALUE)
           named == lines[i].tag = "PARAM" /\ params.NAME # ""
                      /\ params.VALUE # Missing
           withParam == [path EXCEPT !.params = Put(@, params.NAME, params.VALUE)]
       IN routParams(lines, i + 1, to,
            IF ~named THEN path
            ELSE IF params.NAME = "DIA" /\ dia # NaN
              THEN [withParam EXCEPT !.diameter = dia]
            ELSE withParam)

deepen(path, ze) ==
  IF ze < 0 THEN [path EXCEPT !.max_depth = Max(@, Abs(ze))] ELSE path

\* a marker line of the routing pass
IsMarker(line, names) == line.tag = "NAME" /\ line.value.text \in names

\* an ENDPATH that appends the current path even when it has no point
closePathAlways(st, to, pathId) ==
  [st EXCEPT
     !.i = to, !.inRout = FALSE, !.open = FALSE, !.current = NoPath,
     !.routing = IF st.open THEN Append(@, [st.current EXCEPT !.id = pathId])
                 ELSE @]

\* lines 806-812: at the end of the scan of an ENDPATH sub-block the current
\* path is appended if it has a point, and no ROUT is open any more
closePath(st, to, pathId) ==
  [st EXCEPT
     !.i = to, !.inRout = FALSE, !.open = FALSE, !.current = NoPath,
     !.routing = IF st.open /\ Len(st.current.points) > 0
                   THEN Append(@, [st.current EXCEPT !.id = pathId])
                   ELSE @]

\* lines 666-813, one iteration of the outer loop from line i: the scan state
\* [i, inRout, open, current, routing] it leaves (open: current is not null)
routingStep(lines, sheetHeight, st) ==
  LET i == st.i
      line == lines[i]
      to == blockEnd(lines, i + 1)
      val(chain, prefix) == scanned(lines, i + 1, to, chain, prefix)
      pushed(point, ze) ==
        IF st.open
          THEN [st EXCEPT !.i = to,
                          !.current = deepen([@ EXCEPT !.points = Append(@, point)], ze)]
          ELSE [st EXCEPT !.i = to]
      line3 == <<"XE", "YE", "ZE">>
      arc5 == <<"XE", "YE", "XC", "YC", "ZE">>
  IN IF line.tag = "BEGIN MACRO"
       THEN IF i + 1 <= Len(lines) /\ IsMarker(lines[i + 1], {"ROUT"})
              THEN [st EXCEPT !.i = to, !.inRout = TRUE, !.open = TRUE,
                              !.current = routParams(lines, i + 1, to, NoPath)]
              ELSE [st EXCEPT !.i = i + 1]
     ELSE IF st.inRout /\ IsMarker(line, {"START_POINT"})
       THEN pushed(RoutingPoint(val(<<"X", "Y">>, "X"),
                                flipY(val(<<"X", "Y">>, "Y"), sheetHeight),
                                Undef, "start", <<>>), 0)
     ELSE IF st.inRout /\ IsMarker(line, {"LINE_EP"})
       THEN pushed(RoutingPoint(val(line3, "XE"), flipY(val(line3, "YE"), sheetHeight),
                                val(line3, "ZE"), "line", <<>>),
                   val(line3, "ZE"))
     ELSE IF st.inRout /\ IsMarker(line, {"ARC_EPTP", "ARC_EPRA"})
       THEN pushed(RoutingPoint(val(line3, "XE"), flipY(val(line3, "YE"), sheetHeight),
                                val(line3, "ZE"), "arc", <<>>),
                   val(line3, "ZE"))
     ELSE IF st.inRout /\ IsMarker(line, {"ARC_EPCE"})
       THEN pushed(RoutingPoint(val(arc5, "XE"), flipY(val(arc5, "YE"), sheetHeight),
                                val(arc5, "ZE"), "arc",
                                <<val(arc5, "XC"), flipY(val(arc5, "YC"), sheetHeight)>>),
                   val(arc5, "ZE"))
     ELSE IF st.inRout /\ IsMarker(line, {"ENDPATH"})
       THEN closePath(st, to,
                      IF \E j \in i + 1 .. to - 1 : NameStartsWith(lines[j], "ID")
                        THEN scanned(lines, i + 1, to, <<"ID">>, "ID")
                        ELSE Undef)
     ELSE [st EXCEPT !.i = i + 1]

RECURSIVE routingFrom(_, _, _)
routingFrom(lines, sheetHeight, st) ==
  IF st.i > Len(lines) THEN st.routing
  ELSE routingFrom(lines, sheetHeight, routingStep(lines, sheetHeight, st))

\* lines 660-816
parseRoutingPaths(lines, sheetHeight) ==
  routingFrom(lines, sheetHeight,
              [i |-> 1, inRout |-> FALSE, open |-> FALSE, current |-> NoPath,
               routing |-> <<>>])

\* a BV macro read without its repetitions
drillingOfMacroOnce(macro, currentSheetHeight) ==
  <<[x |-> parseFloat(Get(macro, "X")),
     y |-> flipY(parseFloat(Get(macro, "Y")), currentSheetHeight),
     diameter |-> parseFloat(IF Get(macro, "DIA") = Missing THEN Num(5)
                             ELSE Get(macro, "DIA")),
     depth |-> parseFloat(IF Get(macro, "DP") = Missing THEN Num(0)
                          ELSE Get(macro, "DP")),
     id |-> Get(macro, "ID")]>>

\* lines 821-839: the holes of one BV macro
drillingOfMacro(macro, currentSheetHeight) ==
  LET x == parseFloat(Get(macro, "X"))
      y == parseFloat(Get(macro, "Y"))
      dia == parseFloat(IF Get(macro, "DIA") = Missing THEN Num(5) ELSE Get(macro, "DIA"))
      depth == parseFloat(IF Get(macro, "DP") = Missing THEN Num(0) ELSE Get(macro, "DP"))
      nrp == NumberParseInt(IF Get(macro, "NRP") = Missing THEN Num(1)
                            ELSE Get(macro, "NRP"))
      \* Math.max(1, NaN) is NaN, and no i is below NaN
      repeat == IF nrp = NaN THEN 0 ELSE Max(1, nrp)
      dx == parseFloat(IF Get(macro, "DX") = Missing THEN Num(0) ELSE Get(macro, "DX"))
      dy == parseFloat(IF Get(macro, "DY") = Missing THEN Num(0) ELSE Get(macro, "DY"))
  IN [k \in 1 .. repeat |->
       [x |-> x + dx * (k - 1),
        y |-> flipY(y + dy * (k - 1), currentSheetHeight),
        diameter |-> dia, depth |-> depth, id |-> Get(macro, "ID")]]

\* lines 818-845
parseDrillingFromMacros(macros, currentSheetHeight) ==
  LET bv == SelectSeq(macros, LAMBDA macro : macroType(macro) = Word("BV"))
  IN Concat([k \in DOMAIN bv |-> drillingOfMacro(bv[k], currentSheetHeight)])

\* filename.replace(/\.[^.]+$/, ""): the filename without its extension
sheetIdOf(filename) ==
  CASE filename = "upload.cix" -> "upload"
    [] filename = "sheet.v2.cix" -> "sheet.v2"
    [] OTHER -> filename

(***************************************************************************)
(* Inputs.  Lengths are given in half millimetres.                         *)
(***************************************************************************)
\* bounds on the lengths of the document's lists
MaxRouting == 2
MaxDrilling == 2
MaxLabels == 1

HalfMm(k) == k * (Den \div 2)

NoParams == [PR |-> Undef, DP |-> Undef, ZE |-> Undef, Z |-> Undef]

\* a closed square loop around the cell (2,2), starting mid-side
RingPoints ==
  <<Pt(HalfMm(5), HalfMm(3)), Pt(HalfMm(7), HalfMm(3)), Pt(HalfMm(7), HalfMm(7)),
    Pt(HalfMm(3), HalfMm(7)), Pt(HalfMm(3), HalfMm(3)), Pt(HalfMm(5), HalfMm(3))>>
\* a straight cut across the whole plane, along column 2 / along row 2
VCutPoints == <<Pt(HalfMm(5), 0), Pt(HalfMm(5), HalfMm(2 * GridN))>>
HCutPoints == <<Pt(0, HalfMm(5)), Pt(HalfMm(2 * GridN), HalfMm(5))>>

Route(points, depth, params, diameter) ==
  [points |-> points, params |-> params, max_depth |-> depth, diameter |-> diameter]

\* the routing paths a document may hold, in the order they may appear
RoutingCatalogue ==
  <<Route(RingPoints, HalfMm(2), [NoParams EXCEPT !.PR = Junk, !.Z = -HalfMm(4)], Undef),
    Route(RingPoints, 0, NoParams, Undef),
    Route(VCutPoints, 0, NoParams, HalfMm(2)),
    Route(HCutPoints, HalfMm(2), NoParams, Undef),
    Route(<<Pt(HalfMm(2), HalfMm(2))>>, HalfMm(4), NoParams, Undef)>>

Hole(x, y, diameter) == [x |-> x, y |-> y, diameter |-> diameter, depth |-> HalfMm(2)]

\* in the cell (2,2), wider than the cell; in the cell (0,0); without
\* diameter; on the edge between the cells (1,0) and (2,0)
DrillCatalogue ==
  <<Hole(HalfMm(5), HalfMm(5), (HalfMm(2) * 12) \div 10),
    Hole(HalfMm(1), HalfMm(1), (HalfMm(2) * 8) \div 10),
    Hole(HalfMm(5), HalfMm(5), 0),
    Hole(HalfMm(4), HalfMm(1), (HalfMm(2) * 8) \div 10)>>

Label(id, x, y) == [id |-> id, metadata |-> [x_position |-> x, y_position |-> y]]

\* in the cell (2,2); in the cell (1,0), clear of the drill holes; no position
LabelCatalogue ==
  <<Label("centre", HalfMm(5), HalfMm(5)),
    Label("corner", HalfMm(3), HalfMm(1)),
    Label("nan", NaN, HalfMm(5))>>

\* the subsequences of a catalogue of at most n elements
RECURSIVE SubSeqs(_, _)
SubSeqs(cat, n) ==
  IF cat = <<>> \/ n = 0 THEN {<<>>}
  ELSE SubSeqs(Tail(cat), n)
         \cup {<<Head(cat)>> \o t : t \in SubSeqs(Tail(cat), n - 1)}

Sheet(w, h, t) == [w |-> w, h |-> h, t |-> t]

SheetCatalogue ==
  {Sheet(HalfMm(2 * GridN), HalfMm(2 * GridN), HalfMm(4)),
   Sheet(HalfMm(2 * GridN) + 1, HalfMm(2 * GridN) + 1, Undef),
   Sheet(0, HalfMm(2 * GridN), HalfMm(4)),
   Sheet(HalfMm(2 * GridN), Undef, HalfMm(4)),
   Sheet(-HalfMm(2), HalfMm(2 * GridN), HalfMm(4))}

Options(bit, ratio, minArea, scale) ==
  [defaultBitDiameterMm |-> bit, depthRatio |-> ratio,
   minPanelArea |-> minArea, kerfScale |-> scale]

OptionsCatalogue ==
  {Options(HalfMm(2), 80, 0, 100),
   Options(HalfMm(4), 50, 2 * CellQ * CellQ, 50),
   Options(HalfMm(2), 80, (GridN * GridN + 1) * CellQ * CellQ, 100),
   Options(HalfMm(2), 80, 0, 0),
   \* a bit wider than the sheet
   Options(HalfMm(4 * GridN), 80, 0, 100)}

Document(sheet, routing, drilling, labels) ==
  [metadata |-> [sheet_width |-> sheet.w, sheet_height |-> sheet.h,
                 sheet_thickness |-> sheet.t,
                 routing_paths |-> routing, drilling |-> drilling,
                 kerf_polygons |-> <<>>, removed_polygons |-> <<>>],
   \* the metadata fields recovery has assigned (unassigned: undefined)
   assigned |-> {},
   panels |-> labels,
   parse_errors |-> <<>>]

RoutingLists == SubSeqs(RoutingCatalogue, MaxRouting)
DrillLists == SubSeqs(DrillCatalogue, MaxDrilling)
LabelLists == SubSeqs(LabelCatalogue, MaxLabels)

\* a document's drilling and labels are drawn where the call first reads
\* them: until then they are the same for every document
withDrilling(doc, drilling) == [doc EXCEPT !.metadata.drilling = drilling]
withLabels(doc, labels) == [doc EXCEPT !.panels = labels]

(***************************************************************************)
(* Texts for the parser: at most MaxBlocks blocks of lines, one after the  *)
(* other.                                                                  *)
(***************************************************************************)
MaxBlocks == 2

MacroBlock(type, params) == <<BeginMacro, NameLine(type)>> \o params \o <<EndMacro>>

BlockCatalogue ==
  {<<BeginMaindata, Assign("LPX", Num(50)), Assign("LPY", Num(40)),
     Assign("LPZ", Num(19)), EndMaindata>>,
   <<BeginMaindata, Assign("LPX", Word("wide")), Assign("LPY", Num(0 - 40)),
     Assign("OFFS", Num(3)), EndMaindata>>,
   MacroBlock("LABEL", <<Param("ID", Quoted(Word("P1"))), Param("X", Quoted(Num(10))),
                         Param("Y", Num(15))>>),
   MacroBlock("LABEL", <<Param("X", Word("left")), Param("Y", Expr(40, 15)),
                         Param("", Num(1)), Param("ROT", Missing)>>),
   MacroBlock("BV", <<Param("ID", Word("H1")), Param("X", Num(5)), Param("Y", Num(6)),
                      Param("DIA", Num(8)), Param("NRP", Num(2)), Param("DX", Num(10))>>),
   MacroBlock("ROUT", <<Param("DIA", Num(6)), Param("Z", Word("deep"))>>)
     \o MacroBlock("START_POINT", <<Param("X", Num(0)), Param("Y", Num(20))>>)
     \o MacroBlock("LINE_EP", <<Param("XE", Num(50)), Param("YE", Num(20)),
                                Param("ZE", Num(0 - 19))>>)
     \o MacroBlock("ARC_EPCE", <<Param("XE", Num(30)), Param("YE", Num(10)),
                                 Param("XC", Num(40)), Param("YC", Num(12))>>)
     \o MacroBlock("ENDPATH", <<Param("ID", Num(7))>>),
   MacroBlock("BV", <<Param("X", Num(1)), Param("Y", Num(2)), Param("NRP", Num(0)),
                      Param("DY", Num(3)), Param("DP", Num(4))>>),
   MacroBlock("BV", <<Param("X", Num(7)), Param("Y", Expr(40, 15)),
                      Param("NRP", Word("twice"))>>),
   MacroBlock("BV", <<Param("ID", Word("H4")), Param("X", Num(9)), Param("Y", Num(9)),
                      Param("DX", Num(2))>>),
   <<Assign("LPX", Num(99)), Text>>,
   <<BeginMacro>>}

RECURSIVE TextsOf(_)
TextsOf(n) ==
  IF n = 0 THEN {<<>>}
  ELSE TextsOf(n - 1) \cup {t \o b : t \in TextsOf(n - 1), b \in BlockCatalogue}

Texts == TextsOf(MaxBlocks)
Filenames == {"upload.cix", "sheet.v2.cix", "sheet"}

(***************************************************************************)
(* One call of recoverPanelsFromRouting as a state machine.                *)
(***************************************************************************)
VARIABLES
  opts,         \* the RecoverOptions
  cix,          \* the CixData, as the call reads and changes it
  pc,           \* the stage the call is at
  kerfs, kerfUnion, kerfPolygons, remaining, panels,   \* its locals
  lib,          \* which geometry-kernel calls have raised so far
  outcome,      \* "running", "returned" or "raised"
  result        \* the returned panel list

\* one call of parseCixContent
VARIABLES
  content,             \* the lines of the text
  filename,
  parsedCix,           \* the CixData that parse() builds
  ppc,                 \* the pass the call is at
  sheetDims, macros, panelCount,    \* locals of parseContent
  currentSheetHeight,  \* the parser's field
  thrown,              \* the pass that raised, "" when none has
  parseOutcome         \* "running", "returned" or "raised"

\* one traversal of a solution tree by differenceWithHoles
VARIABLES
  solutionTree,   \* the PolyTree that Clipper.Execute has filled
  treePanels,     \* the panels pushed
  tpc             \* "execute" before the traversal, "done" after it

\* One call of parseRoutingPaths, iteration by iteration: its arguments, the
\* scan state of its outer loop and its position
VARIABLES scanLines, scanHeight, scan, spc

recoveryVars == <<opts, cix, pc, kerfs, kerfUnion, kerfPolygons, remaining,
                  panels, lib, outcome, result>>
parserVars == <<content, filename, parsedCix, ppc, sheetDims, macros, panelCount,
                currentSheetHeight, thrown, parseOutcome>>
treeVars == <<solutionTree, treePanels, tpc>>
scanVars == <<scanLines, scanHeight, scan, spc>>
vars == <<recoveryVars, parserVars, treeVars, scanVars>>

\* lines 661-664: the scan state of parseRoutingPaths before its loop
ScanStart == [i |-> 1, inRout |-> FALSE, open |-> FALSE, current |-> NoPath,
              routing |-> <<>>]
\* no call of parseRoutingPaths under way
ScanIdle == scanLines = <<>> /\ scanHeight = 0 /\ scan = ScanStart /\ spc = "idle"

\* no traversal under way
TreeIdle == solutionTree = <<>> /\ treePanels = <<>> /\ tpc = "idle"

\* no call of parseCixContent under way
ParserIdle ==
  /\ content = <<>> /\ filename = "" /\ parsedCix = <<>> /\ ppc = "idle"
  /\ sheetDims = NoDims /\ macros = <<>> /\ panelCount = 0
  /\ currentSheetHeight = 0 /\ thrown = "" /\ parseOutcome = "idle"

\* no call of recoverPanelsFromRouting under way
RecoveryIdle ==
  /\ opts = <<>> /\ cix = <<>> /\ pc = "idle"
  /\ kerfs = <<>> /\ kerfUnion = <<>> /\ kerfPolygons = <<>>
  /\ remaining = <<>> /\ panels = <<>>
  /\ outcome = "idle" /\ result = <<>>

LibSteps == {"offset", "union", "diffHoles", "diffFlat", "removed"}
NoFailure == [s \in LibSteps |-> FALSE]

Init ==
  /\ \E sheet \in SheetCatalogue, routing \in RoutingLists :
       cix = Document(sheet, routing, <<>>, <<>>)
  /\ opts \in OptionsCatalogue
  /\ pc = "start"
  /\ kerfs = <<>> /\ kerfUnion = <<>> /\ kerfPolygons = <<>>
  /\ remaining = <<>> /\ panels = <<>>
  /\ lib = NoFailure
  /\ outcome = "running"
  /\ result = <<>>
  /\ ParserIdle /\ TreeIdle /\ ScanIdle

Return(panelList) ==
  /\ pc' = "done" /\ outcome' = "returned" /\ result' = panelList

Raise(step) ==
  /\ pc' = "done" /\ outcome' = "raised" /\ result' = <<>>
  /\ lib' = [lib EXCEPT ![step] = TRUE]

\* an early return that writes empty kerf and removed polygons first
CheckDimensionsClearing ==
  /\ pc = "start"
  /\ IF sheetW(cix) <= 0 \/ sheetH(cix) <= 0
       THEN /\ Return(<<>>)
            /\ \E drilling \in DrillLists, labels \in LabelLists :
                 cix' = [withLabels(withDrilling(cix, drilling), labels) EXCEPT
                           !.metadata.kerf_polygons = <<>>,
                           !.metadata.removed_polygons = <<>>,
                           !.assigned = {"kerf_polygons", "removed_polygons"}]
       ELSE pc' = "kerfs" /\ UNCHANGED <<cix, outcome, result>>
  /\ UNCHANGED <<opts, kerfs, kerfUnion, kerfPolygons, remaining, panels, lib>>
  /\ UNCHANGED <<parserVars, treeVars, scanVars>>

\* lines 258-262
CheckDimensions ==
  /\ pc = "start"
  /\ IF sheetW(cix) <= 0 \/ sheetH(cix) <= 0
       THEN /\ Return(<<>>)
            /\ \E drilling \in DrillLists, labels \in LabelLists :
                 cix' = withLabels(withDrilling(cix, drilling), labels)
       ELSE pc' = "kerfs" /\ UNCHANGED <<cix, outcome, result>>
  /\ UNCHANGED <<opts, kerfs, kerfUnion, kerfPolygons, remaining, panels, lib>>
  /\ UNCHANGED <<parserVars, treeVars, scanVars>>

\* lines 273-295; offsetOpenPath is called outside any try
CollectKerfs ==
  /\ pc = "kerfs"
  /\ LET stage == kerfStage(cix, opts)
     IN \/ /\ kerfs' = stage.kerfs
           /\ pc' = IF Len(stage.kerfs) = 0 THEN "nokerfs" ELSE "union"
           /\ UNCHANGED <<lib, outcome, result>>
        \/ /\ stage.called
           /\ Raise("offset")
           /\ UNCHANGED kerfs
  /\ UNCHANGED <<opts, cix, kerfUnion, kerfPolygons, remaining, panels>>
  /\ UNCHANGED <<parserVars, treeVars, scanVars>>

\* a whole-sheet return that leaves the document's metadata as it found it
ReturnWholeSheetOnly ==
  /\ pc = "nokerfs"
  /\ \E drilling \in DrillLists, labels \in LabelLists :
       /\ cix' = withLabels(withDrilling(cix, drilling), labels)
       /\ Return(wholeSheet(cix'))
  /\ UNCHANGED <<opts, kerfs, kerfUnion, kerfPolygons, remaining, panels, lib>>
  /\ UNCHANGED <<parserVars, treeVars, scanVars>>

\* lines 297-316
ReturnWholeSheet ==
  /\ pc = "nokerfs"
  /\ \E drilling \in DrillLists, labels \in LabelLists :
       LET doc == withLabels(withDrilling(cix, drilling), labels)
       IN /\ cix' = [doc EXCEPT !.metadata.kerf_polygons = <<>>,
                                !.metadata.removed_polygons = <<>>,
                                !.assigned = {"kerf_polygons", "removed_polygons"}]
          /\ Return(wholeSheet(doc))
  /\ UNCHANGED <<opts, kerfs, kerfUnion, kerfPolygons, remaining, panels, lib>>
  /\ UNCHANGED <<parserVars, treeVars, scanVars>>

\* lines 318-335; unionPaths is called outside any try
UnionKerfs ==
  /\ pc = "union"
  /\ \/ /\ kerfUnion' = unionPaths(kerfs)
        /\ kerfPolygons' = IF Len(kerfUnion') = 0 THEN <<>>
                           ELSE kerfPolygonsOf(kerfUnion')
        /\ cix' = [cix EXCEPT !.metadata.kerf_polygons = kerfPolygons',
                              !.assigned = @ \cup {"kerf_polygons"}]
        /\ pc' = "subtract"
        /\ UNCHANGED <<lib, outcome, result>>
     \/ /\ Raise("union")
        /\ UNCHANGED <<kerfUnion, kerfPolygons, cix>>
  /\ UNCHANGED <<opts, kerfs, remaining, panels>>
  /\ UNCHANGED <<parserVars, treeVars, scanVars>>

\* a subtraction that keeps the failure of the hole-aware difference to
\* itself
SubtractKerfsQuietly ==
  /\ pc = "subtract"
  /\ \/ /\ remaining' = subtractKerfs(cix, kerfUnion)
        /\ UNCHANGED lib
     \/ /\ remaining' = flatPieces(cix, kerfUnion)
        /\ lib' = [lib EXCEPT !["diffHoles"] = TRUE]
  /\ pc' = "pieces"
  /\ UNCHANGED <<opts, cix, kerfs, kerfUnion, kerfPolygons, panels, outcome, result>>
  /\ UNCHANGED <<parserVars, treeVars, scanVars>>

\* lines 336-353: the hole-aware difference, the flat one when it is empty
\* or raises; the flat difference of the catch block is outside any try
SubtractKerfs ==
  /\ pc = "subtract"
  /\ \/ /\ remaining' = subtractKerfs(cix, kerfUnion)
        /\ pc' = "pieces"
        /\ UNCHANGED <<cix, lib, outcome, result>>
     \/ /\ remaining' = flatPieces(cix, kerfUnion)
        /\ cix' = [cix EXCEPT !.parse_errors = Append(@, "kerf difference error")]
        /\ lib' = [lib EXCEPT !["diffHoles"] = TRUE]
        /\ pc' = "pieces"
        /\ UNCHANGED <<outcome, result>>
     \/ /\ pc' = "done" /\ outcome' = "raised" /\ result' = <<>>
        /\ lib' = [lib EXCEPT !["diffHoles"] = TRUE, !["diffFlat"] = TRUE]
        /\ UNCHANGED <<remaining, cix>>
  /\ UNCHANGED <<opts, kerfs, kerfUnion, kerfPolygons, panels>>
  /\ UNCHANGED <<parserVars, treeVars, scanVars>>

\* lines 355-392
BuildPanels ==
  /\ pc = "pieces"
  /\ \E drilling \in DrillLists :
       /\ cix' = withDrilling(cix, drilling)
       /\ panels' = buildPanels(cix', opts, remaining)
  /\ pc' = "select"
  /\ UNCHANGED <<opts, kerfs, kerfUnion, kerfPolygons, remaining,
                 lib, outcome, result>>
  /\ UNCHANGED <<parserVars, treeVars, scanVars>>

\* a call that returns the empty panel list it is left with
ReturnNoPanels ==
  /\ pc = "select"
  /\ Len(panels) = 0
  /\ \E labels \in LabelLists :
       cix' = [withLabels(cix, labels) EXCEPT
                 !.metadata.removed_polygons = kerfsAsRemoved(kerfPolygons),
                 !.assigned = @ \cup {"removed_polygons"}]
  /\ Return(panels)
  /\ UNCHANGED <<opts, kerfs, kerfUnion, kerfPolygons, remaining, panels, lib>>
  /\ UNCHANGED <<parserVars, treeVars, scanVars>>

\* lines 406-421
FallBackToWholeSheet ==
  /\ pc = "select"
  /\ Len(panels) = 0
  /\ \E labels \in LabelLists :
       cix' = [withLabels(cix, labels) EXCEPT
                 !.metadata.removed_polygons = kerfsAsRemoved(kerfPolygons),
                 !.assigned = @ \cup {"removed_polygons"}]
  /\ Return(wholeSheet(cix))
  /\ UNCHANGED <<opts, kerfs, kerfUnion, kerfPolygons, remaining, panels, lib>>
  /\ UNCHANGED <<parserVars, treeVars, scanVars>>

\* lines 423-455
SelectPanels ==
  /\ pc = "select"
  /\ Len(panels) > 0
  /\ \E labels \in LabelLists :
       LET doc == withLabels(cix, labels)
           final == finalPanels(doc, panels)
       IN /\ \/ /\ cix' = [doc EXCEPT !.metadata.removed_polygons =
                                        removedShapes(doc, final),
                                      !.assigned = @ \cup {"removed_polygons"}]
                /\ UNCHANGED lib
             \/ /\ \E k \in DOMAIN final : PathLength(final[k].polygon) >= 3
                /\ cix' = [doc EXCEPT !.metadata.removed_polygons =
                                        kerfsAsRemoved(kerfPolygons),
                                      !.assigned = @ \cup {"removed_polygons"}]
                /\ lib' = [lib EXCEPT !["removed"] = TRUE]
          /\ Return(final)
  /\ UNCHANGED <<opts, kerfs, kerfUnion, kerfPolygons, remaining, panels>>
  /\ UNCHANGED <<parserVars, treeVars, scanVars>>

Next ==
  \/ CheckDimensions
  \/ CollectKerfs
  \/ ReturnWholeSheet
  \/ UnionKerfs
  \/ SubtractKerfs
  \/ BuildPanels
  \/ FallBackToWholeSheet
  \/ SelectPanels

Spec == Init /\ [][Next]_vars

(***************************************************************************)
(* One call of parseCixContent as a state machine: parse() (lines 463-482) *)
(* around the passes of parseContent (lines 484-519).  Any pass may raise. *)
(***************************************************************************)
EmptyMetadata ==
  [sheet_width |-> 0, sheet_height |-> 0, sheet_thickness |-> 0,
   routing_paths |-> <<>>, drilling |-> <<>>]

\* lines 464-472; filled: the keys of metadata that are set
NewCix(text, name) ==
  [filename |-> name, sheetId |-> sheetIdOf(name), panels |-> <<>>,
   raw_content |-> text, parse_errors |-> <<>>,
   metadata |-> EmptyMetadata, filled |-> {}]

InitParse ==
  /\ content \in Texts
  /\ filename \in Filenames
  /\ parsedCix = <<>>
  /\ ppc = "begin"
  /\ sheetDims = NoDims /\ macros = <<>> /\ panelCount = 0
  /\ currentSheetHeight = 0
  /\ thrown = ""
  /\ parseOutcome = "running"
  /\ RecoveryIdle /\ lib = NoFailure
  /\ TreeIdle /\ ScanIdle

\* an exception that leaves parse()
Propagate(pass) ==
  /\ thrown' = pass
  /\ ppc' = "done" /\ parseOutcome' = "raised"
  /\ UNCHANGED <<parsedCix, sheetDims, macros, panelCount, currentSheetHeight>>

\* lines 476-481: the exception of a pass is caught, its message recorded,
\* and the document returned as it stands
Catch(pass) ==
  /\ thrown' = pass
  /\ parsedCix' = [parsedCix EXCEPT !.parse_errors = Append(@, pass)]
  /\ ppc' = "done" /\ parseOutcome' = "returned"
  /\ UNCHANGED <<sheetDims, macros, panelCount, currentSheetHeight>>

\* lines 463-474
ParseBegin ==
  /\ ppc = "begin"
  /\ parsedCix' = NewCix(content, filename)
  /\ ppc' = "maindata"
  /\ UNCHANGED <<content, filename, sheetDims, macros, panelCount,
                 currentSheetHeight, thrown, parseOutcome>>
  /\ UNCHANGED <<recoveryVars, treeVars, scanVars>>

\* lines 485-495
MaindataPass ==
  /\ ppc = "maindata"
  /\ \/ /\ sheetDims' = parseMaindata(content)
        /\ currentSheetHeight' = Or(sheetDims'.LPY, 0)
        /\ parsedCix' = [parsedCix EXCEPT
             !.metadata.sheet_width = Or(sheetDims'.LPX, 0),
             !.metadata.sheet_height = Or(sheetDims'.LPY, 0),
             !.metadata.sheet_thickness = Or(sheetDims'.LPZ, 18),
             !.filled = @ \cup {"sheet_width", "sheet_height", "sheet_thickness"}]
        /\ ppc' = "macros"
        /\ UNCHANGED <<macros, panelCount, thrown, parseOutcome>>
     \/ Catch("maindata")
  /\ UNCHANGED <<content, filename>>
  /\ UNCHANGED <<recoveryVars, treeVars, scanVars>>

\* line 497
MacrosPass ==
  /\ ppc = "macros"
  /\ \/ /\ macros' = parseMacros(content)
        /\ ppc' = "labels"
        /\ UNCHANGED <<parsedCix, sheetDims, panelCount, currentSheetHeight,
                       thrown, parseOutcome>>
     \/ Catch("macros")
  /\ UNCHANGED <<content, filename>>
  /\ UNCHANGED <<recoveryVars, treeVars, scanVars>>

\* lines 499-508
LabelsPass ==
  /\ ppc = "labels"
  /\ \/ /\ parsedCix' = [parsedCix EXCEPT !.panels =
                           @ \o labelPanels(macros, sheetDims, currentSheetHeight)]
        /\ panelCount' = Len(parsedCix'.panels)
        /\ ppc' = "routing"
        /\ UNCHANGED <<sheetDims, macros, currentSheetHeight, thrown, parseOutcome>>
     \/ Catch("labels")
  /\ UNCHANGED <<content, filename>>
  /\ UNCHANGED <<recoveryVars, treeVars, scanVars>>

\* lines 510-511
RoutingPass ==
  /\ ppc = "routing"
  /\ \/ /\ parsedCix' = [parsedCix EXCEPT
             !.metadata.routing_paths = parseRoutingPaths(content, Or(sheetDims.LPY, 0)),
             !.filled = @ \cup {"routing_paths"}]
        /\ ppc' = "drilling"
        /\ UNCHANGED <<sheetDims, macros, panelCount, currentSheetHeight,
                       thrown, parseOutcome>>
     \/ Catch("routing")
  /\ UNCHANGED <<content, filename>>
  /\ UNCHANGED <<recoveryVars, treeVars, scanVars>>

\* lines 513-514
DrillingPass ==
  /\ ppc = "drilling"
  /\ \/ /\ parsedCix' = [parsedCix EXCEPT
             !.metadata.drilling = parseDrillingFromMacros(macros, currentSheetHeight),
             !.filled = @ \cup {"drilling"}]
        /\ ppc' = "check"
        /\ UNCHANGED <<sheetDims, macros, panelCount, currentSheetHeight,
                       thrown, parseOutcome>>
     \/ Catch("drilling")
  /\ UNCHANGED <<content, filename>>
  /\ UNCHANGED <<recoveryVars, treeVars, scanVars>>

\* lines 516-518 and 481
CheckLabels ==
  /\ ppc = "check"
  /\ parsedCix' = IF panelCount = 0
                    THEN [parsedCix EXCEPT !.parse_errors =
                            Append(@, "No LABEL macros found in CIX file")]
                    ELSE parsedCix
  /\ ppc' = "done" /\ parseOutcome' = "returned"
  /\ UNCHANGED <<content, filename, sheetDims, macros, panelCount,
                 currentSheetHeight, thrown>>
  /\ UNCHANGED <<recoveryVars, treeVars, scanVars>>

NextParse ==
  \/ ParseBegin
  \/ MaindataPass
  \/ MacrosPass
  \/ LabelsPass
  \/ RoutingPass
  \/ DrillingPass
  \/ CheckLabels

SpecParse == InitParse /\ [][NextParse]_vars

(***************************************************************************)
(* One traversal of differenceWithHoles (lines 151-171) as a state         *)
(* machine, over the solution trees Clipper.Execute may fill: at most      *)
(* MaxNodes nodes below the root, each a hole or not, with a contour or    *)
(* without.  The contour of the node numbered id is the ring of cell id.   *)
(***************************************************************************)
MaxNodes == 4

NodeKinds == [hole : BOOLEAN, empty : BOOLEAN]
TreeNode(id, kind, childs) ==
  [Contour |-> IF kind.empty THEN EmptyPath
               ELSE Ring({id}, IF kind.hole THEN 0 - 1 ELSE 1),
   IsHole |-> kind.hole, Childs |-> childs]

\* the sequences of trees of n nodes in all, numbered from base on
RECURSIVE Forests(_, _)
Forests(n, base) ==
  IF n = 0 THEN {<<>>}
  ELSE UNION {{<<TreeNode(base, kind, under)>> \o after :
                 kind \in NodeKinds,
                 under \in Forests(k, base + 1),
                 after \in Forests(n - 1 - k, base + 1 + k)} : k \in 0 .. n - 1}

SolutionTrees ==
  UNION {{[Contour |-> EmptyPath, IsHole |-> FALSE, Childs |-> forest] :
            forest \in Forests(n, 0)} : n \in 0 .. MaxNodes}

InitTree ==
  /\ solutionTree \in SolutionTrees
  /\ treePanels = <<>>
  /\ tpc = "execute"
  /\ RecoveryIdle /\ lib = NoFailure
  /\ ParserIdle /\ ScanIdle

\* lines 170-171
Traverse ==
  /\ tpc = "execute"
  /\ treePanels' = panelsOfTree(solutionTree)
  /\ tpc' = "done"
  /\ UNCHANGED solutionTree
  /\ UNCHANGED <<recoveryVars, parserVars, scanVars>>

NextTree == Traverse

SpecTree == InitTree /\ [][NextTree]_vars

(***************************************************************************)
(* One call of parseRoutingPaths (lines 660-816) as a state machine that   *)
(* takes one step for every iteration of the outer loop, over texts of at  *)
(* most MaxScanBlocks blocks: macros closed by their END MACRO, and macros *)
(* that are cut short.                                                     *)
(***************************************************************************)
MaxScanBlocks == 3

ScanCatalogue ==
  {MacroBlock("ROUT", <<Param("DIA", Num(8))>>)
     \o MacroBlock("START_POINT", <<Param("X", Num(1)), Param("Y", Num(2))>>)
     \o MacroBlock("ENDPATH", <<Param("ID", Num(3))>>),
   MacroBlock("ROUT", <<Param("DIA", Num(6))>>)
     \o MacroBlock("START_POINT", <<Param("X", Num(0)), Param("Y", Num(20))>>),
   MacroBlock("ROUT", <<Param("DIA", Num(6))>>),
   MacroBlock("LINE_EP", <<Param("XE", Num(50)), Param("YE", Num(20)),
                           Param("ZE", Num(0 - 19))>>),
   MacroBlock("ARC_EPCE", <<Param("XE", Num(30)), Param("YE", Num(10)),
                            Param("XC", Num(40)), Param("YC", Num(12))>>),
   MacroBlock("ENDPATH", <<Param("ID", Num(7))>>),
   <<BeginMacro, NameLine("START_POINT"), Param("X", Num(5)), Param("Y", Num(6))>>,
   <<BeginMacro, NameLine("LINE_EP")>>,
   <<BeginMacro>>}

RECURSIVE ScanTextsOf(_)
ScanTextsOf(n) ==
  IF n = 0 THEN {<<>>}
  ELSE ScanTextsOf(n - 1) \cup {t \o b : t \in ScanTextsOf(n - 1), b \in ScanCatalogue}

ScanTexts == ScanTextsOf(MaxScanBlocks)

InitScan ==
  /\ scanLines \in ScanTexts
  /\ scanHeight \in {0, 40}
  /\ scan = ScanStart
  /\ spc = "loop"
  /\ RecoveryIdle /\ lib = NoFailure
  /\ ParserIdle /\ TreeIdle

\* lines 666-812: one iteration of the outer loop
Iterate ==
  /\ spc = "loop"
  /\ scan.i <= Len(scanLines)
  /\ scan' = routingStep(scanLines, scanHeight, scan)
  /\ UNCHANGED <<scanLines, scanHeight, spc>>
  /\ UNCHANGED <<recoveryVars, parserVars, treeVars>>

\* lines 666, 815: the loop is left and routing returned
ReturnRouting ==
  /\ spc = "loop"
  /\ scan.i > Len(scanLines)
  /\ spc' = "done"
  /\ UNCHANGED <<scanLines, scanHeight, scan>>
  /\ UNCHANGED <<recoveryVars, parserVars, treeVars>>

NextScan == Iterate \/ ReturnRouting

SpecScan == InitScan /\ [][NextScan]_vars

\* the call runs on: a loop of one thread, nothing to wait for
SpecScanLive == SpecScan /\ WF_vars(NextScan)

(***************************************************************************)
(* Properties of recoverPanelsFromRouting.                                 *)
(***************************************************************************)
Returned == pc = "done" /\ outcome = "returned"
Raised == pc = "done" /\ outcome = "raised"

\* the dimensions as the document gives them
NoDimensions ==
  \/ cix.metadata.sheet_width = Undef \/ cix.metadata.sheet_width <= 0
  \/ cix.metadata.sheet_height = Undef \/ cix.metadata.sheet_height <= 0

\* the call took the normal path: some piece survived, no whole-sheet fallback
NormalPath == Returned /\ Len(panels) > 0

DrillCircle(hole) == circlePath(Pt(hole.x, hole.y), Num0(hole.diameter) \div 2, 40)

\* C1 (as claimed): no drill hole is in the drillHoles list of two distinct
\* returned panels; a hole whose centre lies in the outer ring of several
\* pieces is claimed by the first of them only.
C1_DrillClaimedOnce ==
  Returned =>
    \A i \in DOMAIN result : \A j \in DOMAIN result :
      i # j => Range(result[i].drillHoles) \cap Range(result[j].drillHoles) = {}

\* C2 (as claimed): the call never propagates an exception; when a
\* geometry-kernel step fails it still returns a panel list.
C2_NeverRaises == pc = "done" => outcome = "returned"

\* the passes of parseContent in order, and the rank of the pass that raised
\* (one past the last when none did)
Passes == <<"maindata", "macros", "labels", "routing", "drilling">>
FailedAt ==
  IF thrown = "" THEN Len(Passes) + 1
  ELSE CHOOSE k \in DOMAIN Passes : Passes[k] = thrown

\* C3: parseCixContent returns a Document for every text and never raises:
\* when a pass raises, the exception is caught, its message is appended to
\* parse_errors, and the Document holds what the passes before it filled
\* (the sheet dimensions, the label panels, the routing paths, the drilling,
\* in this order) and nothing of the passes after.
C3_ParseNeverRaises ==
  /\ parseOutcome # "raised"
  /\ ppc = "done" =>
       LET dims == parseMaindata(content)
           height == Or(dims.LPY, 0)
           labels == labelPanels(parseMacros(content), dims, height)
       IN /\ parseOutcome = "returned"
          /\ parsedCix.filename = filename /\ parsedCix.raw_content = content
          /\ parsedCix.filled =
               (IF FailedAt > 1
                  THEN {"sheet_width", "sheet_height", "sheet_thickness"} ELSE {})
                 \cup (IF FailedAt > 4 THEN {"routing_paths"} ELSE {})
                 \cup (IF FailedAt > 5 THEN {"drilling"} ELSE {})
          /\ FailedAt > 1 =>
               /\ parsedCix.metadata.sheet_width = Or(dims.LPX, 0)
               /\ parsedCix.metadata.sheet_height = Or(dims.LPY, 0)
               /\ parsedCix.metadata.sheet_thickness = Or(dims.LPZ, 18)
          /\ parsedCix.panels = IF FailedAt > 3 THEN labels ELSE <<>>
          /\ FailedAt > 4 =>
               parsedCix.metadata.routing_paths = parseRoutingPaths(content, height)
          /\ FailedAt > 5 =>
               parsedCix.metadata.drilling
                 = parseDrillingFromMacros(parseMacros(content), height)
          /\ parsedCix.parse_errors =
               IF thrown # "" THEN <<thrown>>
               ELSE IF Len(labels) = 0 THEN <<"No LABEL macros found in CIX file">>
               ELSE <<>>

C3_Witness ==
  /\ ppc = "done" /\ thrown = "routing"
  /\ Len(parsedCix.panels) > 0
  /\ parsedCix.metadata.sheet_width > 0
  /\ parsedCix.parse_errors = <<"routing">>

\* C4: with a sheet width or height that is missing or not positive the call
\* returns the empty list, raises nothing and runs no later stage: it goes
\* from its start straight to its end, its locals and the recovered metadata
\* untouched, whatever routing, drilling and labels the document holds.
C4_NoDimensionsNoPanels ==
  NoDimensions =>
    /\ pc \in {"start", "done"}
    /\ outcome # "raised"
    /\ pc = "done" =>
         /\ outcome = "returned" /\ result = <<>>
         /\ kerfs = <<>> /\ kerfUnion = <<>> /\ kerfPolygons = <<>>
         /\ remaining = <<>> /\ panels = <<>>
         /\ cix.assigned = {} /\ cix.parse_errors = <<>>
         /\ lib = NoFailure

C4_Witness ==
  /\ NoDimensions /\ Returned
  /\ Len(cix.metadata.routing_paths) > 0
  /\ Len(cix.metadata.drilling) > 0
  /\ Len(cix.panels) > 0

\* the call returned because no routing path produced a kerf
NoKerfReturn == Returned /\ ~NoDimensions /\ Len(kerfs) = 0

\* a coordinate as toPath and fromPath leave it: rounded to 1/SCALE
Rounded(v) == fromCoord(toCoord(v))

IsRectangle(path, X, Y) ==
  path.kind = "ring" /\ PathLength(path) = 4 /\ bounds(path) = <<0, 0, X, Y>>

\* the drill holes of the document with a positive diameter and their centre
\* in the rectangle [0,0]-[X,Y]
DrillsInRectangle(X, Y) ==
  SelectSeq(cix.metadata.drilling, LAMBDA hole :
    /\ IsFinite(hole.x) /\ IsFinite(hole.y) /\ Num0(hole.diameter) \div 2 > 0
    /\ 0 <= hole.x /\ hole.x <= X /\ 0 <= hole.y /\ hole.y <= Y)

\* C5 (as claimed): with W > 0, H > 0 and no kerf the call returns exactly
\* one panel whose outer polygon is the rectangle [0,0]-[W,H] with bounds
\* [0,0,W,H], the drill holes attached to it, kerf_polygons and
\* removed_polygons both set to empty.
C5_WholeSheetExact ==
  NoKerfReturn =>
    /\ Len(result) = 1
    /\ IsRectangle(result[1].polygon, sheetW(cix), sheetH(cix))
    /\ result[1].bounds = <<0, 0, sheetW(cix), sheetH(cix)>>
    /\ result[1].drillHoles = DrillsInRectangle(sheetW(cix), sheetH(cix))
    /\ cix.assigned = {"kerf_polygons", "removed_polygons"}
    /\ cix.metadata.kerf_polygons = <<>> /\ cix.metadata.removed_polygons = <<>>

\* C5 (amended): with W > 0, H > 0 and no kerf the call returns exactly one
\* panel; its outer polygon is the rectangle [0,0]-[W',H'] where W' and H'
\* are W and H rounded to 1/1000, its bounds field is [0,0,W,H], the drill
\* holes with a positive diameter and their centre in the polygon are
\* attached to it, and kerf_polygons and removed_polygons are set to empty.
C5_WholeSheetRounded ==
  NoKerfReturn =>
    /\ Len(result) = 1
    /\ IsRectangle(result[1].polygon, Rounded(sheetW(cix)), Rounded(sheetH(cix)))
    /\ result[1].bounds = <<0, 0, sheetW(cix), sheetH(cix)>>
    /\ result[1].drillHoles
         = DrillsInRectangle(Rounded(sheetW(cix)), Rounded(sheetH(cix)))
    /\ cix.assigned = {"kerf_polygons", "removed_polygons"}
    /\ cix.metadata.kerf_polygons = <<>> /\ cix.metadata.removed_polygons = <<>>

C5_Witness ==
  /\ NoKerfReturn
  /\ Rounded(sheetW(cix)) # sheetW(cix)
  /\ Len(cix.metadata.routing_paths) > 0
  /\ Len(result) = 1 /\ Len(result[1].drillHoles) > 0

\* C6 (as claimed): for a document with sheet width > 0 and height > 0 the
\* call returns at least one panel.
C6_SomePanel == (pc = "done" /\ ~NoDimensions) => Returned /\ Len(result) >= 1

\* the outcomes a call can end in
EmptyOutcome == Returned /\ NoDimensions /\ result = <<>>
WholeSheetOutcome ==
  /\ Returned /\ ~NoDimensions
  /\ Len(kerfs) = 0 \/ Len(panels) = 0
  /\ Len(result) = 1 /\ result[1].polygon = sheetPath(cix)[1]
RecoveredOutcome ==
  /\ NormalPath /\ ~NoDimensions
  /\ Len(result) >= 1
  /\ \A k \in DOMAIN result : \E m \in DOMAIN panels : result[k] = panels[m]
RaisedOutcome ==
  /\ Raised /\ ~NoDimensions /\ result = <<>>
  /\ lib["offset"] \/ lib["union"] \/ lib["diffFlat"]

\* the stages in pipeline order
StageRank ==
  [s \in {"start", "kerfs", "nokerfs", "union", "subtract", "pieces", "select", "done"} |->
     CASE s = "start" -> 0
       [] s = "kerfs" -> 1
       [] s \in {"nokerfs", "union"} -> 2
       [] s = "subtract" -> 3
       [] s = "pieces" -> 4
       [] s = "select" -> 5
       [] s = "done" -> 6]

\* C7 (as claimed): every call ends in a single whole-sheet panel or in the
\* N recovered panels of the normal path.
C7_TwoOutcomes == pc = "done" => WholeSheetOutcome \/ RecoveredOutcome

\* C7 (amended): the pipeline is linear, every step moving to a later stage,
\* and every call ends in exactly one of four outcomes: the empty list (a
\* dimension missing or not positive), a single whole-sheet panel (no kerfs,
\* or no piece left by the minimum-area filter), the N recovered panels of
\* the normal path, or the exception of an offset, a union or a flat
\* difference that failed.
C7_FourOutcomes ==
  /\ [](pc = "done" =>
          Cardinality({o \in {"empty", "sheet", "recovered", "raised"} :
             \/ o = "empty" /\ EmptyOutcome
             \/ o = "sheet" /\ WholeSheetOutcome
             \/ o = "recovered" /\ RecoveredOutcome
             \/ o = "raised" /\ RaisedOutcome}) = 1)
  /\ [][StageRank[pc'] > StageRank[pc]]_vars

C7_Witness ==
  /\ WholeSheetOutcome /\ Len(kerfs) > 0 /\ Len(panels) = 0

\* a small epsilon for areas: a hundredth of a square millimetre
AreaEpsilon == (CellQ * CellQ) \div 100

RemovedArea ==
  SeqSum([k \in DOMAIN cix.metadata.removed_polygons |->
    LET shape == cix.metadata.removed_polygons[k]
    IN polygonArea(shape.outer)
         - SeqSum([h \in DOMAIN shape.holes |-> polygonArea(shape.holes[h])])])
PanelArea == SeqSum([k \in DOMAIN result |-> result[k].area])
ClaimedDrillArea ==
  SeqSum([k \in DOMAIN result |->
    SeqSum([h \in DOMAIN result[k].drillHoles |->
      polygonArea(DrillCircle(result[k].drillHoles[h]))])])

\* C8 (as claimed): when recovery completes via the normal path, the sheet
\* area equals the returned panels' net areas plus the areas of the removed
\* polygons (outer minus holes) plus the areas of the drill circles claimed
\* by panels, within a small epsilon.
C8_AreaConserved ==
  (NormalPath /\ lib = NoFailure) =>
    Abs(sheetW(cix) * sheetH(cix) - (PanelArea + RemovedArea + ClaimedDrillArea))
      <= AreaEpsilon

\* the label placements with finite coordinates
FiniteLabels ==
  SelectSeq(cix.panels, LAMBDA label :
    IsFinite(label.metadata.x_position) /\ IsFinite(label.metadata.y_position))

\* the outer ring of a panel minus its holes contains a label position
HoldsLabel(panel) ==
  \E k \in DOMAIN FiniteLabels :
    LET pt == Pt(FiniteLabels[k].metadata.x_position, FiniteLabels[k].metadata.y_position)
    IN /\ pointInPolygon(pt, panel.polygon)
       /\ \A h \in DOMAIN panel.holes : ~pointInPolygon(pt, panel.holes[h])

\* C9: on the normal path (some piece survived the minimum-area filter), when
\* a surviving piece holds a label position with finite coordinates in its
\* outer ring minus its holes, the returned panels are exactly the surviving
\* pieces that do, in piece order; when none does, or there is no such
\* label, all surviving pieces are returned.
C9_LabelFilter ==
  NormalPath =>
    IF \E m \in DOMAIN panels : HoldsLabel(panels[m])
      THEN result = SelectSeq(panels, HoldsLabel)
      ELSE result = panels

C9_Witness ==
  /\ NormalPath
  /\ Len(FiniteLabels) > 0
  /\ Len(result) < Len(panels)
  /\ \E m \in DOMAIN panels :
       /\ ~HoldsLabel(panels[m])
       /\ \E k \in DOMAIN FiniteLabels :
            pointInPolygon(Pt(FiniteLabels[k].metadata.x_position,
                              FiniteLabels[k].metadata.y_position),
                           panels[m].polygon)

\* every routing path of the document has depth zero
AllZeroDepth ==
  /\ Len(cix.metadata.routing_paths) > 0
  /\ \A k \in DOMAIN cix.metadata.routing_paths :
       pathDepth(cix.metadata.routing_paths[k]) = 0

\* the document with every path as deep as the sheet is thick
Deepened(doc) ==
  [doc EXCEPT !.metadata.routing_paths =
     [k \in DOMAIN @ |-> [@[k] EXCEPT !.max_depth = sheetT(doc)]]]

\* C10: for a sheet with thickness > 0, a document whose routing paths all
\* have zero depth gives the panel list, kerf polygons and removed polygons
\* of the same document with every path as deep as the sheet is thick (at
\* or above sheetThickness x depthRatio), when no kernel call fails.
C10_ZeroDepthAsThroughCuts ==
  (Returned /\ lib = NoFailure /\ sheetT(cix) > 0 /\ AllZeroDepth) =>
    LET deep == Recover(Deepened(cix), opts)
    IN /\ \A k \in DOMAIN Deepened(cix).metadata.routing_paths :
            isThroughCut(Deepened(cix).metadata.routing_paths[k], sheetT(cix),
                         opts.depthRatio)
       /\ result = deep.panels
       /\ cix.metadata.kerf_polygons = deep.kerf_polygons
       /\ cix.metadata.removed_polygons = deep.removed_polygons

C10_Witness ==
  /\ NormalPath /\ lib = NoFailure /\ sheetT(cix) > 0 /\ AllZeroDepth
  /\ Len(result) >= 2

\* the drilling pass has run to its end
DrillingDone == ppc \in {"check", "done"} /\ thrown = ""
BVMacros == SelectSeq(macros, LAMBDA macro : macroType(macro) = Word("BV"))
\* the value of a macro's parameter as a number, d when it is absent
ValueOf(macro, name, d) ==
  parseFloat(IF Get(macro, name) = Missing THEN Num(d) ELSE Get(macro, name))
YFlip(y) ==
  IF parsedCix.metadata.sheet_height > 0 THEN parsedCix.metadata.sheet_height - y
  ELSE y
\* n records of a BV macro, the i-th one step further than the one before
Expansion(macro, n) ==
  [k \in 1 .. n |->
    [x |-> ValueOf(macro, "X", 0) + ValueOf(macro, "DX", 0) * (k - 1),
     y |-> YFlip(ValueOf(macro, "Y", 0) + ValueOf(macro, "DY", 0) * (k - 1)),
     diameter |-> ValueOf(macro, "DIA", 5), depth |-> ValueOf(macro, "DP", 0),
     id |-> Get(macro, "ID")]]
HasCount(macro) == Get(macro, "NRP") = Missing \/ Get(macro, "NRP").kind = "num"
\* the repeat count as written: NRP, one without NRP
WrittenCount(macro) ==
  IF Get(macro, "NRP") = Missing THEN 1 ELSE Get(macro, "NRP").n
\* the repeat count as read: at least one, none when NRP is not a number
ReadCount(macro) ==
  IF Get(macro, "NRP") = Missing THEN 1
  ELSE IF Get(macro, "NRP").kind = "num" THEN Max(1, Get(macro, "NRP").n)
  ELSE 0

\* C11 (as stated): a BV macro with repeat count N yields exactly N drill
\* holes, in order, the i-th at (X + DX*i, Y-flip of Y + DY*i) with the macro's
\* diameter, depth and id; a BV macro without NRP yields exactly one.
C11_RepeatExpansion ==
  (DrillingDone /\ \A k \in DOMAIN BVMacros : HasCount(BVMacros[k]))
    => parsedCix.metadata.drilling =
         Concat([k \in DOMAIN BVMacros |->
                   Expansion(BVMacros[k], WrittenCount(BVMacros[k]))])

\* C11 (amended): a BV macro whose NRP is a number N yields max(1, N) drill
\* holes, in order, the i-th at (X + DX*i, Y-flip of Y + DY*i) with the macro's
\* diameter, depth and id; without NRP it yields exactly one, and with an NRP
\* that is not a number it yields none.
C11_RepeatAtLeastOnce ==
  DrillingDone
    => parsedCix.metadata.drilling =
         Concat([k \in DOMAIN BVMacros |->
                   Expansion(BVMacros[k], ReadCount(BVMacros[k]))])

\* two BV macros, one repeated twice and one without NRP, have given three
\* holes
C11_Witness ==
  /\ DrillingDone
  /\ \E k \in DOMAIN BVMacros : Get(BVMacros[k], "NRP") = Num(2)
  /\ \E k \in DOMAIN BVMacros : Get(BVMacros[k], "NRP") = Missing
  /\ Len(parsedCix.metadata.drilling) = 3
  /\ parsedCix.metadata.drilling[2].x = parsedCix.metadata.drilling[1].x + 10

\* every pass of the parser has run to its end
ParseComplete == parseOutcome = "returned" /\ thrown = ""
LabelMacros == SelectSeq(macros, LAMBDA macro : macroType(macro) = Word("LABEL"))
\* what the routing and the drilling pass read before any flip
UnflippedRouting == parseRoutingPaths(content, 0)
UnflippedDrilling == parseDrillingFromMacros(macros, 0)
FlippedPoint(stored, read) ==
  /\ stored.x = read.x
  /\ stored.y = YFlip(read.y)
  /\ Len(stored.center) = Len(read.center)
  /\ stored.center # <<>>
       => /\ stored.center[1] = read.center[1]
          /\ stored.center[2] = YFlip(read.center[2])

\* C12: with sheet height H > 0 the parser stores H - y for the Y of every
\* routing point, arc center and drill hole and of every label whose Y is not
\* an expression; the Y of a label given by an expression is stored as the
\* expression's value; with H unknown, zero or negative every Y is stored as
\* read.
C12_YFlip ==
  ParseComplete
    => /\ Len(parsedCix.panels) = Len(LabelMacros)
       /\ \A k \in DOMAIN parsedCix.panels :
            parsedCix.panels[k].metadata.y_position =
              IF Get(LabelMacros[k], "Y") # Missing
                   /\ Get(LabelMacros[k], "Y").kind = "expr"
                THEN ValueOf(LabelMacros[k], "Y", 0)
                ELSE YFlip(ValueOf(LabelMacros[k], "Y", 0))
       /\ Len(parsedCix.metadata.drilling) = Len(UnflippedDrilling)
       /\ \A k \in DOMAIN parsedCix.metadata.drilling :
            parsedCix.metadata.drilling[k].y = YFlip(UnflippedDrilling[k].y)
       /\ Len(parsedCix.metadata.routing_paths) = Len(UnflippedRouting)
       /\ \A k \in DOMAIN parsedCix.metadata.routing_paths :
            LET stored == parsedCix.metadata.routing_paths[k].points
                read == UnflippedRouting[k].points
            IN /\ Len(stored) = Len(read)
               /\ \A q \in DOMAIN stored : FlippedPoint(stored[q], read[q])

\* a sheet 40 high with an arc whose center was read at y = 12 and is stored
\* at y = 28
C12_Witness ==
  /\ ParseComplete
  /\ parsedCix.metadata.sheet_height = 40
  /\ \E k \in DOMAIN parsedCix.metadata.routing_paths :
       \E q \in DOMAIN parsedCix.metadata.routing_paths[k].points :
         LET point == parsedCix.metadata.routing_paths[k].points[q]
         IN point.center # <<>> /\ point.center[2] = 28 /\ point.y = 30

\* the rings that drill holes have added to a panel's holes
DrillRings(panel) == SelectSeq(panel.holes, LAMBDA hole : hole.kind = "circle")

\* C13: every drill hole in a returned panel's drillHoles has finite center
\* coordinates, a positive diameter and a center that the point-in-polygon
\* test finds in the panel's outer ring (its boundary included, its holes
\* ignored); each claimed hole adds exactly one circle ring to the panel's
\* holes.
C13_ClaimedHoles ==
  Returned
    => \A p \in DOMAIN result :
         /\ \A k \in DOMAIN result[p].drillHoles :
              LET hole == result[p].drillHoles[k]
              IN /\ IsFinite(hole.x) /\ IsFinite(hole.y)
                 /\ IsFinite(hole.diameter) /\ hole.diameter > 0
                 /\ pointInPolygon(Pt(hole.x, hole.y), result[p].polygon)
         /\ Len(DrillRings(result[p])) = Len(result[p].drillHoles)
         /\ \A k \in DOMAIN result[p].drillHoles :
              /\ DrillRings(result[p])[k].c
                   = Pt(result[p].drillHoles[k].x, result[p].drillHoles[k].y)
              /\ 2 * DrillRings(result[p])[k].r = result[p].drillHoles[k].diameter

\* one of two pieces has claimed the drill hole that lies on its edge, and a
\* frame has claimed the drill hole that lies in its opening
C13_Witness ==
  /\ Returned
  /\ \/ /\ Len(result) = 2
        /\ \E p \in DOMAIN result :
             /\ CellAt(1, 0) \in result[p].polygon.cells
             /\ CellAt(2, 0) \notin result[p].polygon.cells
             /\ \E k \in DOMAIN result[p].drillHoles :
                  result[p].drillHoles[k].x = HalfMm(4)
     \/ \E p \in DOMAIN result :
          /\ Len(result[p].holes) > Len(DrillRings(result[p]))
          /\ \E k \in DOMAIN result[p].drillHoles :
               result[p].drillHoles[k].x = HalfMm(5)

\* C14: every returned panel reports an area >= 0, whatever minPanelArea is,
\* and also when the drill circles it claimed cover more than its area before
\* their subtraction.
C14_AreaNotNegative ==
  Returned => \A p \in DOMAIN result : result[p].area >= 0

\* a returned panel whose drill circles are larger than the panel itself
C14_Witness ==
  /\ Returned
  /\ \E p \in DOMAIN result :
       /\ Len(result[p].drillHoles) > 0
       /\ SeqSum([k \in DOMAIN DrillRings(result[p]) |->
                    polygonArea(DrillRings(result[p])[k])])
            > polygonArea(result[p].polygon)
       /\ result[p].area = 0

\* the drill holes of the document that a panel's outer ring claims
ClaimedBy(panel) ==
  SelectSeq(cix.metadata.drilling, LAMBDA hole :
    /\ IsFinite(hole.x) /\ IsFinite(hole.y) /\ hole.diameter > 0
    /\ pointInPolygon(Pt(hole.x, hole.y), panel.polygon))
CarryDrillHoles == \A p \in DOMAIN result : result[p].drillHoles = ClaimedBy(result[p])
PolygonsSet == {"kerf_polygons", "removed_polygons"} \subseteq cix.assigned

\* C15 (as stated): when the call returns, metadata.kerf_polygons and
\* metadata.removed_polygons are set on the document and each returned panel
\* carries the drill holes it claimed.
C15_OutputsSet == Returned => (PolygonsSet /\ CarryDrillHoles)

\* C15 (amended): when the call returns for a sheet of positive width and
\* height, metadata.kerf_polygons and metadata.removed_polygons are set on the
\* document and each returned panel carries the drill holes it claimed; when
\* the width or the height is missing or not positive, the call returns the
\* empty list and sets neither of the two.
C15_OutputsAttached ==
  Returned
    => IF NoDimensions THEN cix.assigned = {} /\ result = <<>>
       ELSE PolygonsSet /\ CarryDrillHoles

\* a return with kerf polygons on the document and a drill hole on a panel
C15_Witness ==
  /\ Returned /\ ~NoDimensions
  /\ PolygonsSet
  /\ Len(cix.metadata.kerf_polygons) > 0
  /\ \E p \in DOMAIN result : Len(result[p].drillHoles) > 0

\* the kerfs have just been collected
KerfsCollected == pc \in {"nokerfs", "union"}
Qualifying == throughCuts(cix, opts)

\* C16 (as claimed): the fallback that buffers every routing path is taken
\* if and only if routing paths exist and none of them qualifies as a through
\* cut; when at least one path qualifies, the kerfs are those of the
\* qualifying paths alone.
C16_FallbackIffNoneQualifies ==
  KerfsCollected
    => /\ fallbackTaken(cix, opts)
            <=> (Len(cix.metadata.routing_paths) > 0 /\ Len(Qualifying) = 0)
       /\ Len(Qualifying) > 0 => kerfs = addKerfsForPaths(Qualifying, opts)

\* the depth D of a path: the greatest absolute value among max_depth and
\* the numeric ones of PR, DP, ZE and Z
DepthSources(path) ==
  {Abs(path.max_depth)}
    \cup {Abs(path.params[name]) : name \in {n \in {"PR", "DP", "ZE", "Z"} :
                                               IsFinite(path.params[n])}}
GreatestDepth(path) ==
  CHOOSE d \in DepthSources(path) : \A e \in DepthSources(path) : e <= d
Thickness == IF cix.metadata.sheet_thickness = Undef THEN 0
             ELSE cix.metadata.sheet_thickness
\* the rule of the claim, depthRatio counted in 1/100
ClassifiedThrough(path) ==
  IF Thickness > 0 THEN GreatestDepth(path) * 100 >= Thickness * opts.depthRatio
  ELSE GreatestDepth(path) > 0

\* C17: a routing path is a through cut iff D >= sheetThickness x depthRatio
\* when the thickness is positive, and iff D > 0 when it is zero or unknown,
\* D being the greatest of |max_depth| and the absolute values of the numeric
\* PR, DP, ZE and Z parameters; the paths buffered without the fallback are
\* the paths so classified.
C17_ThroughCutRule ==
  /\ pc # "idle"
       => \A k \in DOMAIN cix.metadata.routing_paths :
            isThroughCut(cix.metadata.routing_paths[k], sheetT(cix), opts.depthRatio)
              <=> ClassifiedThrough(cix.metadata.routing_paths[k])
  /\ (KerfsCollected /\ ~fallbackTaken(cix, opts))
       => kerfs = addKerfsForPaths(
                    SelectSeq(cix.metadata.routing_paths, ClassifiedThrough), opts)

\* kerfs collected, without the fallback, from a path that is deep enough by
\* its Z parameter alone, or by a depth of exactly thickness x depthRatio,
\* next to a path that is not deep enough
C17_Witness ==
  /\ KerfsCollected /\ ~fallbackTaken(cix, opts) /\ Len(kerfs) > 0
  /\ Thickness > 0
  /\ \E k \in DOMAIN cix.metadata.routing_paths :
       LET path == cix.metadata.routing_paths[k]
       IN /\ ClassifiedThrough(path)
          /\ \/ Abs(path.max_depth) * 100 < Thickness * opts.depthRatio
             \/ GreatestDepth(path) * 100 = Thickness * opts.depthRatio
  /\ \E k \in DOMAIN cix.metadata.routing_paths :
       ~ClassifiedThrough(cix.metadata.routing_paths[k])

\* the subtraction step has left its pieces
Subtracted == pc \in {"pieces", "select"}
HoleAware == differenceWithHoles(sheetPath(cix), kerfUnion)
\* the contours of the flat difference, each a piece without holes
Flat ==
  LET contours == difference(sheetPath(cix), kerfUnion)
  IN [k \in DOMAIN contours |-> [outer |-> contours[k], holes |-> <<>>]]

\* C18: the subtraction step uses the result of the hole-aware difference
\* when it is not empty and the flat difference when it is empty; when the
\* hole-aware difference raises it uses the flat difference and appends the
\* failure message to the document's diagnostics; no diagnostic is appended
\* in any other case, the one where the flat difference raises in its turn
\* and the call ends there included.
C18_SubtractionStep ==
  /\ Subtracted
       => IF lib["diffHoles"]
            THEN remaining = Flat /\ Len(cix.parse_errors) = 1
          ELSE IF Len(HoleAware) > 0
            THEN remaining = HoleAware /\ Len(cix.parse_errors) = 0
          ELSE remaining = Flat /\ Len(cix.parse_errors) = 0
  /\ pc # "idle"
       => (Len(cix.parse_errors) > 0 <=> (lib["diffHoles"] /\ ~lib["diffFlat"]))

\* the hole-aware difference has raised and the flat difference has given
\* the pieces, none of them with a hole, where the hole-aware one would have
\* given a piece with a hole
C18_Witness ==
  /\ Subtracted /\ lib["diffHoles"]
  /\ Len(remaining) > 0 /\ remaining = Flat
  /\ \E k \in DOMAIN HoleAware : Len(HoleAware[k].holes) > 0
  /\ Len(cix.parse_errors) = 1

\* the material of a panel: its outer ring less its openings
MaterialOf(panel) ==
  panel.polygon.cells
    \ UNION {panel.holes[k].cells :
               k \in {j \in DOMAIN panel.holes : panel.holes[j].kind = "ring"}}
\* the hole-aware difference of the sheet rectangle minus the returned panels
SheetMinusPanels ==
  LET tree == PolyTree(sheetPath(cix)[1].cells
                         \ UNION {MaterialOf(result[p]) : p \in DOMAIN result})
  IN Concat([k \in DOMAIN tree.Childs |-> visit(tree.Childs[k])])
KerfUnionAsRemoved ==
  LET polys == SelectSeq(cix.metadata.kerf_polygons, LAMBDA poly : PathLength(poly) >= 3)
  IN [k \in DOMAIN polys |-> [outer |-> polys[k], holes |-> <<>>]]

\* C19 (as claimed): on the normal path removed_polygons is the hole-aware
\* difference of the sheet rectangle minus the final panel set; if that
\* difference raises, it is the kerf-union polygons of at least 3 vertices,
\* each without holes.
C19_RemovedIsSheetMinusPanels ==
  NormalPath
    => cix.metadata.removed_polygons =
         IF lib["removed"] THEN KerfUnionAsRemoved ELSE SheetMinusPanels

\* the area of a piece less the areas of its holes
NetArea(piece) ==
  polygonArea(piece.outer)
    - SeqSum([k \in DOMAIN piece.holes |-> polygonArea(piece.holes[k])])
Survivors == SelectSeq(remaining, LAMBDA piece : NetArea(piece) >= opts.minPanelArea)
\* the call has returned after the minimum-area filter left no piece
NoSurvivor == Returned /\ ~NoDimensions /\ Len(kerfs) > 0 /\ Len(Survivors) = 0

\* C20: a piece survives the minimum-area filter iff its net area is at least
\* minPanelArea; if kerfs exist and no piece survives, the call returns
\* exactly one panel, the whole sheet with the drill holes attached, and
\* removed_polygons is the kerf-union polygons.
C20_NoSurvivorFallback ==
  /\ pc = "select" => Len(panels) = Len(Survivors)
  /\ NoSurvivor
       => /\ Len(result) = 1
          /\ IsRectangle(result[1].polygon, Rounded(cix.metadata.sheet_width),
                         Rounded(cix.metadata.sheet_height))
          /\ result[1].bounds
               = <<0, 0, cix.metadata.sheet_width, cix.metadata.sheet_height>>
          /\ result[1].drillHoles = ClaimedBy(result[1])
          /\ Len(DrillRings(result[1])) = Len(result[1].drillHoles)
          /\ cix.metadata.removed_polygons = KerfUnionAsRemoved

\* pieces were cut, all of them too small, and the whole sheet was returned
\* with a drill hole and with the kerfs as the removed polygons
C20_Witness ==
  /\ NoSurvivor
  /\ Len(remaining) > 0
  /\ Len(result) = 1 /\ Len(result[1].drillHoles) > 0
  /\ Len(cix.metadata.removed_polygons) > 0

(***************************************************************************)
(* Properties of the traversal of differenceWithHoles.                     *)
(***************************************************************************)
\* the nodes below a node, at any depth
RECURSIVE NodesOf(_)
NodesOf(node) ==
  UNION {{node.Childs[k]} \cup NodesOf(node.Childs[k]) : k \in DOMAIN node.Childs}
\* the nodes that stand for a region: not a hole, with a contour
RegionNodes == {node \in NodesOf(solutionTree) :
                  ~node.IsHole /\ PathLength(node.Contour) > 0}
\* the contours of the hole children of a node, in their order
DirectHoles(node) ==
  LET holeChilds == SelectSeq(node.Childs, LAMBDA ch :
                      ch.IsHole /\ PathLength(ch.Contour) > 0)
  IN [k \in DOMAIN holeChilds |-> holeChilds[k].Contour]

\* C21: differenceWithHoles emits exactly one piece for every node, at any
\* depth, that is not a hole and has a contour, and none for a hole node; the
\* holes of a piece are exactly the contours of its node's direct hole
\* children, never those of deeper descendants.
C21_Traversal ==
  tpc = "done"
    => /\ Len(treePanels) = Cardinality(RegionNodes)
       /\ {treePanels[k] : k \in DOMAIN treePanels}
            = {[outer |-> node.Contour, holes |-> DirectHoles(node)] :
                 node \in RegionNodes}

\* a tree four deep has been traversed: a region with a hole that holds a
\* region with a hole of its own, each piece with its own hole only
C21_Witness ==
  /\ tpc = "done"
  /\ Len(treePanels) = 2
  /\ \E outerNode \in RegionNodes, innerNode \in RegionNodes :
       /\ \E k \in DOMAIN outerNode.Childs :
            /\ outerNode.Childs[k].IsHole
            /\ innerNode \in {outerNode.Childs[k].Childs[j] :
                                j \in DOMAIN outerNode.Childs[k].Childs}
       /\ Len(DirectHoles(outerNode)) = 1 /\ Len(DirectHoles(innerNode)) = 1
       /\ treePanels[1] = [outer |-> innerNode.Contour, holes |-> DirectHoles(innerNode)]
       /\ treePanels[2] = [outer |-> outerNode.Contour, holes |-> DirectHoles(outerNode)]

(***************************************************************************)
(* Properties of the routing pass, iteration by iteration.                 *)
(***************************************************************************)
PointMarkers == {"START_POINT", "LINE_EP", "ARC_EPTP", "ARC_EPRA", "ARC_EPCE"}
SubBlockMarkers == PointMarkers \cup {"ENDPATH"}
\* the iteration about to run is the scan of a sub-block of an open ROUT
AtSubBlock ==
  /\ spc = "loop" /\ scan.i <= Len(scanLines)
  /\ scan.inRout /\ IsMarker(scanLines[scan.i], SubBlockMarkers)

\* C22: in the routing pass a sub-block (START_POINT, LINE_EP, ARC_EPTP,
\* ARC_EPRA, ARC_EPCE, ENDPATH) reads only its own PARAM lines: the lines its
\* scan passes over hold no marker of another sub-block, so that the
\* parameters of a following sub-block are never given to the preceding one
\* and every marker in an open ROUT is met by the outer loop.
C22_OwnParamsOnly ==
  [][AtSubBlock => \A j \in scan.i + 1 .. scan'.i - 1 :
                     ~IsMarker(scanLines[j], SubBlockMarkers)]_vars

(***************************************************************************)
(* Properties of the macro pass.                                           *)
(***************************************************************************)
MacrosDone ==
  \/ ppc \in {"labels", "routing", "drilling", "check"}
  \/ ppc = "done" /\ thrown \notin {"maindata", "macros"}
\* the END MACRO lines that close a block: a BEGIN MACRO stands before them
\* with no END MACRO between
BlockEnds ==
  {j \in DOMAIN content :
     /\ content[j].tag = "END MACRO"
     /\ \E b \in 1 .. j - 1 :
          /\ content[b].tag = "BEGIN MACRO"
          /\ \A l \in b + 1 .. j - 1 : content[l].tag # "END MACRO"}
\* the k-th of them in input order, and the lines of its block
BlockEnd(k) ==
  CHOOSE j \in BlockEnds : Cardinality({l \in BlockEnds : l <= j}) = k
BlockLines(j) ==
  {l \in 1 .. j - 1 :
     \E b \in 1 .. l - 1 :
       /\ content[b].tag = "BEGIN MACRO"
       /\ \A m \in b + 1 .. j - 1 : content[m].tag \notin {"BEGIN MACRO", "END MACRO"}}
HoldsParam(line) ==
  line.tag = "PARAM" /\ line.name # "" /\ line.value # Missing
\* the record of the block of lines ls: its names, and the value under the
\* name of each of its lines, the last line of a name winning
RecordOf(record, ls) ==
  /\ {record[e][1] : e \in DOMAIN record}
       = {content[l].name : l \in {m \in ls : HoldsParam(content[m])}}
           \cup (IF \E l \in ls : content[l].tag = "NAME" THEN {"_MACRO_TYPE"} ELSE {})
  /\ \A l \in ls :
       /\ (content[l].tag = "NAME"
            /\ \A m \in ls : m > l => content[m].tag # "NAME")
           => Get(record, "_MACRO_TYPE") = Unquote(content[l].value)
       /\ (HoldsParam(content[l])
            /\ \A m \in ls : m > l =>
                  ~(HoldsParam(content[m]) /\ content[m].name = content[l].name))
           => Get(record, content[l].name) = Unquote(content[l].value)

\* C23: the macro pass yields one record for every BEGIN MACRO ... END MACRO
\* block, in input order; the type tag of a record is the value of its block's
\* NAME= line and its parameter map holds, for every PARAM line of the block
\* with a NAME and a VALUE, the value without its quotes; lines outside any
\* block add to no record.
C23_MacroRecords ==
  MacrosDone
    => /\ Len(macros) = Cardinality(BlockEnds)
       /\ \A k \in DOMAIN macros : RecordOf(macros[k], BlockLines(BlockEnd(k)))

\* the macro pass has read a block with quoted values that stands after
\* lines outside any block
C23_Witness ==
  /\ MacrosDone
  /\ Len(macros) = 1
  /\ \E l \in BlockLines(BlockEnd(1)) : content[l].value.kind = "quoted word"
  /\ \E l \in 1 .. BlockEnd(1) :
       l \notin BlockLines(BlockEnd(1)) /\ content[l].tag = "ASSIGN"

(***************************************************************************)
(* Properties of the MAINDATA pass.                                        *)
(***************************************************************************)
MaindataDone ==
  \/ ppc \in {"macros", "labels", "routing", "drilling", "check"}
  \/ ppc = "done" /\ thrown # "maindata"
\* the lines the sheet dimension `key` may come from: key=number after a
\* BEGIN MAINDATA and before the first END MAINDATA
TakenFrom(key) ==
  {l \in DOMAIN content :
     /\ content[l].tag = "ASSIGN" /\ content[l].name = key
     /\ content[l].value.kind \in {"num", "expr"}
     /\ \E b \in 1 .. l - 1 : content[b].tag = "BEGIN MAINDATA"
     /\ \A m \in 1 .. l - 1 : content[m].tag # "END MAINDATA"}
Dimension(key, untouched) ==
  IF TakenFrom(key) = {} THEN untouched
  ELSE content[CHOOSE l \in TakenFrom(key) : \A m \in TakenFrom(key) : m <= l].value.n

\* C24: the sheet width, height and thickness are taken only from LPX, LPY
\* and LPZ lines inside BEGIN MAINDATA ... END MAINDATA; such lines elsewhere,
\* other keys and values that are not numbers leave the dimensions untouched
\* (0, 0 and 18) and add no diagnostic.
C24_SheetDimensions ==
  MaindataDone
    => /\ parsedCix.metadata.sheet_width = Dimension("LPX", 0)
       /\ parsedCix.metadata.sheet_height = Dimension("LPY", 0)
       /\ parsedCix.metadata.sheet_thickness = Dimension("LPZ", 18)
       /\ ppc = "macros" => parsedCix.parse_errors = <<>>

\* the pass has read a text with an LPX line outside MAINDATA and a MAINDATA
\* block: the width is the block's, the thickness is untouched
C24_Witness ==
  /\ ppc = "macros"
  /\ \E l \in DOMAIN content :
       content[l] = Assign("LPX", Num(99)) /\ l \notin TakenFrom("LPX")
  /\ TakenFrom("LPY") # {}
  /\ \E l \in DOMAIN content : content[l] = Assign("OFFS", Num(3))
  /\ parsedCix.metadata.sheet_height = 0 - 40
  /\ parsedCix.metadata.sheet_width = 0
  /\ parsedCix.metadata.sheet_thickness = 18
AtLine == spc = "loop" /\ scan.i <= Len(scanLines)
AtEndpath == AtLine /\ scan.inRout /\ IsMarker(scanLines[scan.i], {"ENDPATH"})
AtRout ==
  /\ AtLine /\ scanLines[scan.i].tag = "BEGIN MACRO"
  /\ scan.i + 1 <= Len(scanLines) /\ IsMarker(scanLines[scan.i + 1], {"ROUT"})
AtPointOutsideRout ==
  AtLine /\ ~scan.inRout /\ IsMarker(scanLines[scan.i], PointMarkers)

\* C25: the routing pass appends a path only at an ENDPATH marker reached
\* while a ROUT is open, only if the path has a point, and at the end of the
\* paths so far (paths stand in the order of their ENDPATH markers); a ROUT
\* followed by another ROUT or by the end of input before its ENDPATH adds
\* no path; a point marker met while no ROUT is open adds no point.
C25_PathsAtEndpath ==
  [][/\ scan'.routing # scan.routing
          => /\ AtEndpath /\ scan.open /\ Len(scan.current.points) > 0
             /\ Len(scan'.routing) = Len(scan.routing) + 1
             /\ SubSeq(scan'.routing, 1, Len(scan.routing)) = scan.routing
             /\ scan'.routing[Len(scan'.routing)].points = scan.current.points
     /\ AtRout /\ scan'.i > scan.i
          => scan'.routing = scan.routing /\ scan'.current.points = <<>>
     /\ spc' = "done" => scan'.routing = scan.routing
     /\ AtPointOutsideRout /\ scan'.i > scan.i => scan'.current = scan.current]_vars

\* two paths have been appended, in the order of their ENDPATH markers
C25_Witness ==
  /\ spc = "done"
  /\ Len(scan.routing) = 2
  /\ scan.routing[1].id = 7 /\ scan.routing[2].id = 3
\* C26: parseRoutingPaths terminates on every finite array of lines: every
\* iteration of the outer loop moves the line index forward by at least one,
\* also when BEGIN MACRO is the last line or a sub-block has no END MACRO
\* before the end of input, and the index is never more than one past the end.
C26_Terminates ==
  /\ <>(spc = "done")
  /\ [][spc' = "loop" /\ scan' # scan => scan'.i > scan.i]_vars
  /\ [](scan.i \in 1 .. Len(scanLines) + 1)

\* the call has returned from a text whose last line is the marker of a
\* sub-block of an open ROUT: no parameter, no END MACRO after it
C26_Witness ==
  /\ spc = "done"
  /\ Len(scanLines) > 0
  /\ IsMarker(scanLines[Len(scanLines)], {"LINE_EP"})
  /\ scan.inRout /\ Len(scan.current.points) = 2
  /\ scan.i = Len(scanLines) + 1
(***************************************************************************)
(* What recoverPanelsFromRouting leaves alone.                             *)
(***************************************************************************)
\* the drilling and the label placements of the document stand in the model
\* from the step that first reads them: drilling on the way to "select" or
\* "done", the labels on the way to "done"; each is set once
DrillingKept ==
  cix'.metadata.drilling # cix.metadata.drilling
    => /\ cix.metadata.drilling = <<>>
       /\ pc \notin {"select", "done"} /\ pc' \in {"select", "done"}
LabelsKept ==
  cix'.panels # cix.panels
    => cix.panels = <<>> /\ pc # "done" /\ pc' = "done"

====
